---- MODULE Spec2Model ----
(***************************************************************************)
(* MoneyTracker: the client-side state and persistence model.             *)
(*                                                                         *)
(* The React state held by AppProvider (users, mainUser, selectedUser,    *)
(* transactionsByMonth, templates, tags, alertMessage), the localStorage  *)
(* keys it is mirrored to by the provider's effects, and the handlers of  *)
(* the modals that mutate it.                                              *)
(*                                                                         *)
(* Rendering model: the state updates a handler makes are batched into    *)
(* one render; the render's passive effects then run together, in the     *)
(* order they are declared, each seeing the values of that render; the    *)
(* state updates the effects make are rendered next, and so on until no   *)
(* dependency has changed.  `dirty` holds the state slots set since the   *)
(* effects last ran; handlers and timer callbacks run between such cycles. *)
(***************************************************************************)
EXTENDS Integers, Sequences, FiniteSets, TLC

(***************************************************************************)
(* Bounds of the model.                                                    *)
(***************************************************************************)
\* Date.now() readings: the clock is read as 1..MaxClock
MaxClock == 2
\* setTimeout callbacks that may be pending at once
MaxTimers == 1
\* transactions a month bucket may hold before SpecTxn and SpecTag stop adding
MaxBucket == 2
\* transactions a month bucket may hold before SpecExport and SpecTag stop
\* adding
MaxSmallBucket == 1
\* tags the list may hold before SpecTag stops adding
MaxList == 2
\* characters of an amount text handed to validateAmount
MaxAmountLen == 3
\* characters of an item text handed to validateItem
MaxItemTextLen == 13

(***************************************************************************)
(* Program constants.                                                      *)
(***************************************************************************)
MaxNameLen == 8
MaxItemLen == 12
MaxTagLen == 4

(***************************************************************************)
(* JavaScript values.                                                      *)
(*   null / undefined results of lookups are the empty sequence, a found  *)
(*   value v is <<v>>.  A transaction's or template's optional `tag` is a *)
(*   tag name, Undefined (the key is present with value undefined, as     *)
(*   `tag || undefined` builds it) or Absent (the object has no such key, *)
(*   as JSON.parse builds it).                                             *)
(***************************************************************************)
None == <<>>
Some(v) == <<v>>
Undefined == "<undefined>"
\* a null filterTag
Null == "<null>"
Absent == "<absent>"

MapSeq(s, F(_)) == [i \in 1..Len(s) |-> F(s[i])]

\* Array.prototype.filter
FilterSeq(s, P(_)) == SelectSeq(s, P)

\* Array.prototype.find: the first element satisfying P, or undefined
FindSeq(s, P(_)) ==
  LET hits == {i \in 1..Len(s) : P(s[i])}
  IN IF hits = {} THEN None
     ELSE Some(s[CHOOSE i \in hits : \A j \in hits : i <= j])

\* Array.prototype.some
SomeSeq(s, P(_)) == \E i \in 1..Len(s) : P(s[i])

\* t.tag truthiness: `tag || ''`, `t.tag ? ... : null`, `!t.tag`
HasTag(t) == t.tag # Undefined /\ t.tag # Absent /\ t.tag # ""

(***************************************************************************)
(* JSON.stringify / JSON.parse.  A JSON text is modelled by the value it  *)
(* denotes: stringify drops every key whose value is undefined, keeps the *)
(* order of object keys and array elements; parse rebuilds exactly what   *)
(* the text denotes.                                                       *)
(***************************************************************************)
DropUndefined(t) == [t EXCEPT !.tag = IF @ = Undefined THEN Absent ELSE @]

StringifyList(l) == MapSeq(l, DropUndefined)
StringifyTransactions(tbm) ==
  [i \in 1..Len(tbm) |-> [key |-> tbm[i].key, txns |-> StringifyList(tbm[i].txns)]]
StringifyUsers(us) == us
JSONparse(text) == text

(***************************************************************************)
(* Object operations on TransactionsByMonth, an object whose own keys are *)
(* kept in insertion order: a sequence of [key, txns].                    *)
(***************************************************************************)
HasKey(tbm, k) == \E i \in 1..Len(tbm) : tbm[i].key = k
\* transactionsByMonth[monthKey] || []
Bucket(tbm, k) ==
  IF HasKey(tbm, k) THEN tbm[CHOOSE i \in 1..Len(tbm) : tbm[i].key = k].txns ELSE <<>>
\* { ...transactionsByMonth, [monthKey]: v }
WithKey(tbm, k, v) ==
  IF HasKey(tbm, k)
  THEN [i \in 1..Len(tbm) |-> IF tbm[i].key = k THEN [key |-> k, txns |-> v] ELSE tbm[i]]
  ELSE Append(tbm, [key |-> k, txns |-> v])
\* const { [monthKey]: _, ...rest } = transactionsByMonth
Rest(tbm, k) == LET Keep(b) == b.key # k IN FilterSeq(tbm, Keep)

(***************************************************************************)
(* Validation (Modal.tsx).  A result is "" on success, else the message.  *)
(***************************************************************************)
MsgNameEmpty == "enter a name"
MsgNameLong == "name must be at most 8 characters"
MsgNameUsed == "a user with this name already exists"
MsgItemEmpty == "enter an item"
MsgItemLong == "item must be at most 12 characters"
MsgTagEmpty == "enter a tag name"
MsgTagLong == "tag name must be at most 4 characters"
MsgTagReserved == "expense and income cannot be tag names"
MsgAmount == "enter a valid amount"
MsgColor == "choose a color"
MsgTagUsed == "a tag with this name already exists"
MsgTemplateUsed == "a template with this item already exists"
MsgCannotDeleteMain == "the main user cannot be deleted"
MsgExported == "export completed"
MsgImported == "import completed"
MsgInvalidFile == "invalid file format"
MsgReadFailed == "failed to read the file"

\* the two built-in type labels shown for untagged rows (two characters each
\* in the source; written here in ASCII)
LabelExpense == "EX"
LabelIncome == "IN"

\* a validateName without the test for a name in use
validateNameAlt(name, us) ==
  IF name = "" THEN MsgNameEmpty
  ELSE IF Len(name) > MaxNameLen THEN MsgNameLong
  ELSE ""
validateName(name, us) ==
  IF name = "" THEN MsgNameEmpty
  ELSE IF Len(name) > MaxNameLen THEN MsgNameLong
  ELSE IF \E i \in 1..Len(us) : us[i].name = name THEN MsgNameUsed
  ELSE ""

\* a validateItem that refuses an item of MaxItemLen characters
validateItemAlt(item) ==
  IF item = "" THEN MsgItemEmpty
  ELSE IF Len(item) >= MaxItemLen THEN MsgItemLong
  ELSE ""

validateItem(item) ==
  IF item = "" THEN MsgItemEmpty
  ELSE IF Len(item) > MaxItemLen THEN MsgItemLong
  ELSE ""

\* a validateTagName without the test for the built-in type labels
validateTagNameAlt(name) ==
  IF name = "" THEN MsgTagEmpty
  ELSE IF Len(name) > MaxTagLen THEN MsgTagLong
  ELSE ""

validateTagName(name) ==
  IF name = "" THEN MsgTagEmpty
  ELSE IF Len(name) > MaxTagLen THEN MsgTagLong
  ELSE IF name = LabelExpense \/ name = LabelIncome THEN MsgTagReserved
  ELSE ""

(***************************************************************************)
(* Numbers.  A JS number with a finite decimal expansion is the record     *)
(* [n, e] standing for n / 10^e, with e as small as it can be; sums and    *)
(* differences are exact.  The text of an input is a sequence of           *)
(* one-character strings.                                                  *)
(***************************************************************************)
RECURSIVE Pow10(_)
Pow10(e) == IF e = 0 THEN 1 ELSE 10 * Pow10(e - 1)

RECURSIVE Normal(_, _)
\* the number n / 10^e without trailing zeros in its fraction
Normal(n, e) ==
  IF e > 0 /\ n % 10 = 0 THEN Normal(n \div 10, e - 1) ELSE [n |-> n, e |-> e]

\* the integer i as a number
Num(i) == [n |-> i, e |-> 0]

\* a + b and a - b
Plus(a, b) ==
  LET e == IF a.e > b.e THEN a.e ELSE b.e
  IN Normal(a.n * Pow10(e - a.e) + b.n * Pow10(e - b.e), e)
Minus(a, b) == Plus(a, [n |-> 0 - b.n, e |-> b.e])

Digits == <<"0", "1", "2", "3", "4", "5", "6", "7", "8", "9">>
IsDigit(c) == \E i \in 1..Len(Digits) : Digits[i] = c
DigitVal(c) == (CHOOSE i \in 1..Len(Digits) : Digits[i] = c) - 1

\* removeDecimal: value.replace(/\./g, '')
removeDecimal(text) == LET NotDot(c) == c # "." IN SelectSeq(text, NotDot)

RECURSIVE DigitPrefix(_)
\* the longest prefix of digits of s
DigitPrefix(s) ==
  IF s = <<>> \/ ~IsDigit(Head(s)) THEN <<>>
  ELSE <<Head(s)>> \o DigitPrefix(Tail(s))

RECURSIVE ParseDigits(_, _)
\* the value of the longest prefix of digits of s, continuing from acc
ParseDigits(s, acc) ==
  IF s = <<>> \/ ~IsDigit(Head(s)) THEN acc
  ELSE ParseDigits(Tail(s), acc * 10 + DigitVal(Head(s)))

\* parseFloat: an optional sign, digits, an optional "." and digits, read as
\* far as the text allows; NaN (None) when that prefix holds no digit.
\* Exponents and leading blanks are not modelled.
parseFloat(text) ==
  LET signed == text # <<>> /\ Head(text) \in {"-", "+"}
      neg == signed /\ Head(text) = "-"
      body == IF signed THEN Tail(text) ELSE text
      int == DigitPrefix(body)
      rest == SubSeq(body, Len(int) + 1, Len(body))
      frac == IF rest # <<>> /\ Head(rest) = "." THEN DigitPrefix(Tail(rest)) ELSE <<>>
      abs == ParseDigits(int \o frac, 0)
  IN IF int = <<>> /\ frac = <<>> THEN None
     ELSE Some(Normal(IF neg THEN 0 - abs ELSE abs, Len(frac)))

\* parseFloat(balance) || 0
ParseOrZero(text) ==
  IF parseFloat(text) = None \/ parseFloat(text)[1].n = 0 THEN Num(0)
  ELSE parseFloat(text)[1]

\* validateAmount (Common.tsx): None when it reports MsgAmount and returns
\* null, else the parsed number
validateAmount(text) ==
  LET amountNum == parseFloat(text)
  IN IF amountNum = None \/ amountNum[1].n = 0 \/ amountNum[1].n <= 0 THEN None
     ELSE amountNum

(***************************************************************************)
(* The date of the run and month keys.                                     *)
(***************************************************************************)
\* the real-world year and month while the model runs
CurrentYear == 2024
CurrentMonth == 3

\* getDaysInMonth: new Date(year, month, 0).getDate(), the last day of the
\* month (1 to 12) of the year
getDaysInMonth(year, month) ==
  IF month \in {4, 6, 9, 11} THEN 30
  ELSE IF month # 2 THEN 31
  ELSE IF year % 4 = 0 /\ (year % 100 # 0 \/ year % 400 = 0) THEN 29
  ELSE 28

\* month.toString().padStart(2, '0')
Pad2(n) == IF n < 10 THEN "0" \o ToString(n) ELSE ToString(n)
getMonthKey(year, month) == ToString(year) \o "-" \o Pad2(month)

(***************************************************************************)
(* State.                                                                  *)
(***************************************************************************)
VARIABLES
  users,                \* AppProvider state: User[]
  mainUser,             \* AppProvider state: string
  selectedUser,         \* AppProvider state: string
  transactionsByMonth,  \* AppProvider state of the selected user
  templates,            \* AppProvider state of the selected user
  tags,                 \* AppProvider state of the selected user
  alertMessage,         \* AppProvider state: the alert shown, "" when none
  localStorage,         \* the browser's durable key-value store
  mounted,              \* the provider has run its first effects
  dirty,                \* state slots set since the effects last ran
  importData,           \* SettingsModal state: the import awaiting confirmation
  isImportConfirmOpen,  \* SettingsModal state
  timers,               \* pending setTimeout callbacks of executeImport
  file,                 \* the last artifact handleExport downloaded
  clock,                \* the last reading of Date.now()
  selectedYear,         \* App state
  selectedMonth,        \* App state
  amount,               \* TransactionModal / TemplateModal state: the amount text
  item,                 \* TransactionModal / TemplateModal state: the item text
  filterTag,            \* App state: the tag filter, Null when none
  editingTransaction,   \* App state: the row being edited, None when none
  last                  \* history: the handler that ran last and what it saw

vars == <<users, mainUser, selectedUser, transactionsByMonth, templates, tags,
          alertMessage, localStorage, mounted, dirty, importData,
          isImportConfirmOpen, timers, file, clock, selectedYear, selectedMonth,
          amount, item, filterTag, editingTransaction, last>>

memory == <<users, mainUser, selectedUser, transactionsByMonth, templates, tags>>
modalState == <<importData, isImportConfirmOpen>>
dateState == <<selectedYear, selectedMonth>>

\* every name a user of the model can carry: the keys of the per-user entries
AllNames == {"A", "B", "ABCDEFGHI"}

\* localStorage holds no key
EmptyStorage ==
  [users |-> None, mainUser |-> None,
   transactions |-> [n \in AllNames |-> None],
   templates |-> [n \in AllNames |-> None],
   tags |-> [n \in AllNames |-> None]]

\* history: the handler that ran last (op), the storage and the selected user
\* it found, and the import data or the collections it worked on
NoOp == [op |-> "none", ls |-> EmptyStorage, sel |-> "", data |-> None]
Did(op) == [op |-> op, ls |-> localStorage, sel |-> selectedUser, data |-> None]
DidWith(op, d) == [op |-> op, ls |-> localStorage, sel |-> selectedUser, data |-> Some(d)]

\* no render is pending and no effect has yet to run
Settled == mounted /\ dirty = {}
\* a handler of the page can be invoked: nothing is pending and no overlay
\* (alert, import confirmation) covers the page
Idle == Settled /\ alertMessage = "" /\ ~isImportConfirmOpen

(***************************************************************************)
(* AppProvider: initial state and effects (AppContext).                    *)
(***************************************************************************)
\* the useState initialisers, run on a given localStorage
InitialMemory(ls) ==
  /\ users = (IF ls.users # None THEN JSONparse(ls.users[1]) ELSE <<>>)
  /\ mainUser = (IF ls.mainUser # None THEN ls.mainUser[1] ELSE "")
  /\ selectedUser = ""
  /\ transactionsByMonth = <<>>
  /\ templates = <<>>
  /\ tags = <<>>
  /\ alertMessage = ""

Init ==
  /\ localStorage = EmptyStorage
  /\ InitialMemory(localStorage)
  /\ mounted = FALSE
  /\ dirty = {}
  /\ importData = None
  /\ isImportConfirmOpen = FALSE
  /\ timers = <<>>
  /\ file = None
  /\ clock = 1
  /\ selectedYear = CurrentYear
  /\ selectedMonth = CurrentMonth
  /\ amount = <<>>
  /\ item = ""
  /\ filterTag = Null
  /\ editingTransaction = None
  /\ last = NoOp

\* localStorage.getItem(getUserKey(user, key)), parsed, or the default
\* a load effect that ignores what is stored
LoadedAlt(entry) == <<>>
Loaded(entry) == IF entry # None THEN JSONparse(entry[1]) ELSE <<>>

\* the load effect, deps [selectedUser]: the values it sets
LoadTransactions(ls, sel) == IF sel # "" THEN Loaded(ls.transactions[sel]) ELSE <<>>
LoadTemplates(ls, sel) == IF sel # "" THEN Loaded(ls.templates[sel]) ELSE <<>>
LoadTags(ls, sel) == IF sel # "" THEN Loaded(ls.tags[sel]) ELSE <<>>

\* does an effect with these deps run in this commit
\* effects that react to selectedUser only
RunsAlt(deps) == ~mounted \/ "selectedUser" \in deps \cap dirty
Runs(deps) == ~mounted \/ deps \cap dirty # {}

\* the save effects, in the order they are declared: the storage they leave
SavedStorage ==
  LET sel == selectedUser
      perUser(slot, old, text) ==
        IF Runs({slot, "selectedUser"}) /\ sel # ""
        THEN [old EXCEPT ![sel] = Some(text)] ELSE old
  IN [users |-> IF Runs({"users"}) THEN Some(StringifyUsers(users))
                ELSE localStorage.users,
      mainUser |-> IF Runs({"mainUser"}) THEN Some(mainUser)
                   ELSE localStorage.mainUser,
      transactions |-> perUser("transactionsByMonth", localStorage.transactions,
                               StringifyTransactions(transactionsByMonth)),
      templates |-> perUser("templates", localStorage.templates,
                            StringifyList(templates)),
      tags |-> perUser("tags", localStorage.tags, tags)]

\* App's mount effect: select the main user when it is in the list
StartupSelects == ~mounted /\ users # <<>> /\ mainUser # ""
                  /\ \E i \in 1..Len(users) : users[i].name = mainUser

\* One commit's passive effects: App's mount effect, then the provider's
\* load effect and its five save effects.  The load effect reads storage
\* before the save effects of the same commit write it; what it sets is
\* rendered by the next commit.
FlushEffects ==
  /\ ~mounted \/ dirty # {}
  /\ LET load == Runs({"selectedUser"})
         sel == IF StartupSelects THEN mainUser ELSE selectedUser
     IN /\ localStorage' = SavedStorage
        /\ transactionsByMonth' =
             (IF load THEN LoadTransactions(localStorage, selectedUser)
              ELSE transactionsByMonth)
        /\ templates' = (IF load THEN LoadTemplates(localStorage, selectedUser)
                         ELSE templates)
        /\ tags' = (IF load THEN LoadTags(localStorage, selectedUser) ELSE tags)
        /\ selectedUser' = sel
        /\ dirty' = (IF load THEN {"transactionsByMonth", "templates", "tags"} ELSE {})
                    \cup (IF sel # selectedUser THEN {"selectedUser"} ELSE {})
  /\ mounted' = TRUE
  /\ UNCHANGED <<users, mainUser, alertMessage, modalState, timers, file, clock,
                 dateState, amount, item, filterTag,
                 editingTransaction, last>>

(***************************************************************************)
(* User handlers (Modal.tsx: UserModal, SettingsModal, RenameModal; the   *)
(* user dropdown of App.tsx).                                              *)
(***************************************************************************)
UserNames(us) == {us[i].name : i \in 1..Len(us)}

\* the slots among `slots` whose new primitive value differs from the old
\* one (setState bails out on an identical value)
ChangedSel(new) == IF new # selectedUser THEN {"selectedUser"} ELSE {}
ChangedMain(new) == IF new # mainUser THEN {"mainUser"} ELSE {}

\* UserModal.handleSubmit: the main user after creating `name`
MainAfterCreate(us, main, name) == IF Len(us) = 0 THEN name ELSE main

\* UserModal.handleSubmit
UserSubmit(name, balance) ==
  /\ Idle
  /\ LET result == validateName(name, users)
         main == MainAfterCreate(users, mainUser, name)
     IN IF result # ""
        THEN /\ alertMessage' = result
             /\ last' = NoOp
             /\ UNCHANGED <<memory, dirty>>
        ELSE /\ users' = Append(users, [name |-> name, balance |-> ParseOrZero(balance)])
             /\ selectedUser' = name
             /\ mainUser' = main
             /\ dirty' = {"users"} \cup ChangedSel(name) \cup ChangedMain(main)
             /\ last' = Did("create")
             /\ UNCHANGED <<transactionsByMonth, templates, tags, alertMessage>>
  /\ UNCHANGED <<localStorage, mounted, modalState, timers, file, clock, dateState, amount, item, filterTag,
                 editingTransaction>>

\* UserDropdown onChange = setSelectedUser
SelectUser(name) ==
  /\ Idle
  /\ name \in UserNames(users)
  /\ name # selectedUser
  /\ selectedUser' = name
  /\ dirty' = {"selectedUser"}
  /\ last' = Did("select")
  /\ UNCHANGED <<users, mainUser, transactionsByMonth, templates, tags, alertMessage,
                 localStorage, mounted, modalState, timers, file, clock, dateState, amount, item, filterTag,
                 editingTransaction>>

\* settings item: setMainUser(selectedUser), disabled for the main user
SetMainUser ==
  /\ Idle
  /\ selectedUser # ""
  /\ selectedUser # mainUser
  /\ mainUser' = selectedUser
  /\ dirty' = {"mainUser"}
  /\ last' = NoOp
  /\ UNCHANGED <<users, selectedUser, transactionsByMonth, templates, tags,
                 alertMessage, localStorage, mounted, modalState, timers, file,
                 clock, dateState, amount, item, filterTag,
                 editingTransaction>>

\* handleDeleteClick: is the deletion refused
\* a handleDeleteClick without the main-user test
DeleteRefusedAlt(sel, main) == FALSE
DeleteRefused(sel, main) == sel = main

\* a filter that keeps only the users of the given name
removeUserAlt(us, name) == LET Keep(u) == u.name = name IN FilterSeq(us, Keep)
\* handleDeleteUser: users.filter(u => u.name !== selectedUser)
removeUser(us, name) == LET Keep(u) == u.name # name IN FilterSeq(us, Keep)

\* handleDeleteClick, and handleDeleteUser once the confirmation is accepted
DeleteUser ==
  /\ Idle
  /\ selectedUser # ""
  /\ IF DeleteRefused(selectedUser, mainUser)
     THEN /\ alertMessage' = MsgCannotDeleteMain
          /\ last' = NoOp
          /\ UNCHANGED <<memory, dirty>>
     ELSE /\ users' = removeUser(users, selectedUser)
          /\ selectedUser' = mainUser
          /\ dirty' = {"users"} \cup ChangedSel(mainUser)
          /\ last' = Did("delete")
          /\ UNCHANGED <<mainUser, transactionsByMonth, templates, tags, alertMessage>>
  /\ UNCHANGED <<localStorage, mounted, modalState, timers, file, clock, dateState, amount, item, filterTag,
                 editingTransaction>>

\* a rename that leaves mainUser as it is
MainAfterRenameAlt(main, sel, name) == main
\* RenameModal.handleSubmit: if (mainUser === selectedUser) setMainUser(name)
MainAfterRename(main, sel, name) == IF main = sel THEN name ELSE main

\* RenameModal.handleSubmit
RenameSubmit(name) ==
  /\ Idle
  /\ selectedUser # ""
  /\ LET result == validateName(name, users)
         main == MainAfterRename(mainUser, selectedUser, name)
     IN IF name = selectedUser
        THEN UNCHANGED <<memory, dirty, alertMessage, last>>
        ELSE IF result # ""
        THEN /\ alertMessage' = result
             /\ last' = NoOp
             /\ UNCHANGED <<memory, dirty>>
        ELSE /\ users' = [i \in 1..Len(users) |->
                            IF users[i].name = selectedUser
                            THEN [users[i] EXCEPT !.name = name] ELSE users[i]]
             /\ mainUser' = main
             /\ selectedUser' = name
             /\ dirty' = {"users"} \cup ChangedSel(name) \cup ChangedMain(main)
             /\ last' = Did("rename")
             /\ UNCHANGED <<transactionsByMonth, templates, tags, alertMessage>>
  /\ UNCHANGED <<localStorage, mounted, modalState, timers, file, clock, dateState, amount, item, filterTag,
                 editingTransaction>>

\* AlertModal: OK
DismissAlert ==
  /\ Settled
  /\ alertMessage # ""
  /\ alertMessage' = ""
  /\ UNCHANGED <<memory, localStorage, mounted, dirty, modalState, timers, file,
                 clock, dateState, amount, item, filterTag,
                 editingTransaction, last>>

\* the page is loaded again: the provider is constructed from localStorage
\* and every pending callback and modal is gone
Reload ==
  /\ Settled
  /\ users' = (IF localStorage.users # None THEN JSONparse(localStorage.users[1]) ELSE <<>>)
  /\ mainUser' = (IF localStorage.mainUser # None THEN localStorage.mainUser[1] ELSE "")
  /\ selectedUser' = ""
  /\ transactionsByMonth' = <<>>
  /\ templates' = <<>>
  /\ tags' = <<>>
  /\ alertMessage' = ""
  /\ mounted' = FALSE
  /\ dirty' = {}
  /\ importData' = None
  /\ isImportConfirmOpen' = FALSE
  /\ timers' = <<>>
  /\ selectedYear' = CurrentYear
  /\ selectedMonth' = CurrentMonth
  /\ amount' = <<>>
  /\ item' = ""
  /\ filterTag' = Null
  /\ editingTransaction' = None
  /\ last' = [op |-> "reload", ls |-> localStorage, sel |-> "", data |-> None]
  /\ UNCHANGED <<localStorage, file, clock>>

(***************************************************************************)
(* Export and import (Modal.tsx: SettingsModal).  A downloaded file is    *)
(* [b64, json]: b64 says whether its text is the Base64 of a JSON text,   *)
(* json is what that text denotes, every optional key being <<>> when the *)
(* object lacks it and <<v>> when it holds v.                              *)
(***************************************************************************)
\* btoa(unescape(encodeURIComponent(jsonStr)))
Base64Encode(json) == [b64 |-> TRUE, json |-> json]
\* JSON.parse(decodeURIComponent(escape(atob(text)))): None when it throws
Base64Decode(f) == IF f.b64 THEN Some(JSONparse(f.json)) ELSE None

\* handleExport: the object it serialises, exported at clock reading t
ExportData(t) ==
  [user |-> LET Sel(u) == u.name = selectedUser IN FindSeq(users, Sel),
   transactions |-> Some(StringifyTransactions(transactionsByMonth)),
   templates |-> Some(StringifyList(templates)),
   tags |-> Some(tags),
   exportedAt |-> t]

\* handleExport
Export ==
  /\ Idle
  /\ selectedUser # ""
  /\ \E t \in clock..MaxClock :
       /\ clock' = t
       /\ file' = Some(Base64Encode(ExportData(t)))
  /\ alertMessage' = MsgExported
  /\ last' = Did("export")
  /\ UNCHANGED <<memory, localStorage, mounted, dirty, modalState, timers, dateState, amount, item, filterTag,
                 editingTransaction>>

\* executeImport: does the imported user exist
ImportTargetExists(data) == data.user[1].name \in UserNames(users)

\* handleImport: the comparison of the import with the stored values
\* a comparison of the transactions only
HasDiffAlt(data, ls) ==
  LET n == data.user[1].name
  IN ls.transactions[n] # None
     /\ StringifyTransactions(data.transactions[1]) # ls.transactions[n][1]
HasDiff(data, ls) ==
  LET n == data.user[1].name
  IN \/ /\ ls.transactions[n] # None
        /\ StringifyTransactions(data.transactions[1]) # ls.transactions[n][1]
     \/ /\ ls.templates[n] # None
        /\ data.templates # None
        /\ StringifyList(data.templates[1]) # ls.templates[n][1]
     \/ /\ ls.tags[n] # None
        /\ data.tags # None
        /\ data.tags[1] # ls.tags[n][1]

\* executeImport
ExecuteImport(data) ==
  LET n == data.user[1].name
      setTemplates == data.templates # None
      setTags == data.tags # None
  IN /\ IF ImportTargetExists(data)
        THEN /\ transactionsByMonth' = data.transactions[1]
             /\ templates' = (IF setTemplates THEN data.templates[1] ELSE templates)
             /\ tags' = (IF setTags THEN data.tags[1] ELSE tags)
             /\ selectedUser' = n
             /\ dirty' = {"transactionsByMonth"}
                         \cup (IF setTemplates THEN {"templates"} ELSE {})
                         \cup (IF setTags THEN {"tags"} ELSE {})
                         \cup ChangedSel(n)
             /\ last' = DidWith("importExisting", data)
             /\ UNCHANGED <<users, timers>>
        ELSE /\ Len(timers) < MaxTimers
             /\ users' = Append(users, data.user[1])
             /\ selectedUser' = n
             /\ timers' = Append(timers, data)
             /\ dirty' = {"users"} \cup ChangedSel(n)
             /\ last' = DidWith("importNew", data)
             /\ UNCHANGED <<transactionsByMonth, templates, tags>>
     /\ alertMessage' = MsgImported
     /\ UNCHANGED mainUser

\* handleImport, from the chosen file's reader.onload on
Import(f) ==
  /\ Idle
  /\ LET decoded == Base64Decode(f)
     IN IF decoded = None
        THEN /\ alertMessage' = MsgReadFailed
             /\ last' = NoOp
             /\ UNCHANGED <<memory, dirty, modalState, timers>>
        ELSE IF decoded[1].user = None \/ decoded[1].transactions = None
        THEN /\ alertMessage' = MsgInvalidFile
             /\ last' = NoOp
             /\ UNCHANGED <<memory, dirty, modalState, timers>>
        ELSE IF ImportTargetExists(decoded[1]) /\ HasDiff(decoded[1], localStorage)
        THEN /\ importData' = Some(decoded[1])
             /\ isImportConfirmOpen' = TRUE
             /\ last' = NoOp
             /\ UNCHANGED <<memory, dirty, alertMessage, timers>>
        ELSE /\ ExecuteImport(decoded[1])
             /\ UNCHANGED modalState
  /\ UNCHANGED <<localStorage, mounted, file, clock, dateState, amount, item, filterTag,
                 editingTransaction>>

\* handleImportConfirm
ImportConfirm ==
  /\ Settled
  /\ alertMessage = ""
  /\ isImportConfirmOpen
  /\ IF importData # None
     THEN ExecuteImport(importData[1])
     ELSE UNCHANGED <<memory, dirty, alertMessage, timers, last>>
  /\ isImportConfirmOpen' = FALSE
  /\ importData' = None
  /\ UNCHANGED <<localStorage, mounted, file, clock, dateState, amount, item, filterTag,
                 editingTransaction>>

\* handleImportCancel
ImportCancel ==
  /\ Settled
  /\ alertMessage = ""
  /\ isImportConfirmOpen
  /\ isImportConfirmOpen' = FALSE
  /\ importData' = None
  /\ last' = NoOp
  /\ UNCHANGED <<memory, dirty, alertMessage, timers, localStorage, mounted, file,
                 clock, dateState, amount, item, filterTag,
                 editingTransaction>>

\* the callback executeImport hands to setTimeout for a new user
TimerFire ==
  /\ Settled
  /\ timers # <<>>
  /\ LET data == Head(timers)
         setTemplates == data.templates # None
         setTags == data.tags # None
     IN /\ transactionsByMonth' = data.transactions[1]
        /\ templates' = (IF setTemplates THEN data.templates[1] ELSE templates)
        /\ tags' = (IF setTags THEN data.tags[1] ELSE tags)
        /\ dirty' = {"transactionsByMonth"}
                    \cup (IF setTemplates THEN {"templates"} ELSE {})
                    \cup (IF setTags THEN {"tags"} ELSE {})
        /\ last' = DidWith("timer", data)
  /\ timers' = Tail(timers)
  /\ UNCHANGED <<users, mainUser, selectedUser, alertMessage, localStorage, mounted,
                 modalState, file, clock, dateState, amount, item, filterTag,
                 editingTransaction>>

(***************************************************************************)
(* Transactions (Modal.tsx: TransactionModal).  A form is what the modal's *)
(* fields hold: [type, date, item, amount, tag], amount being the text of *)
(* the AmountInput and tag "" for none.                                    *)
(***************************************************************************)
\* tag || undefined
TagOrUndefined(tag) == IF tag = "" THEN Undefined ELSE tag

\* the month bucket the modal works on
monthKey == getMonthKey(selectedYear, selectedMonth)

\* handleSubmit, create branch: the mapping it sets
CreatedTransactions(tbm, key, id, data) ==
  WithKey(tbm, key, Append(Bucket(tbm, key),
                           [id |-> id, type |-> data.type, date |-> data.date,
                            item |-> data.item, amount |-> data.amount,
                            tag |-> data.tag]))

\* handleSubmit, edit branch: the mapping it sets
UpdatedTransactions(tbm, key, id, data) ==
  LET Edit(t) == IF t.id = id
                 THEN [id |-> t.id, type |-> data.type, date |-> data.date,
                       item |-> data.item, amount |-> data.amount, tag |-> data.tag]
                 ELSE t
  IN WithKey(tbm, key, MapSeq(Bucket(tbm, key), Edit))

\* handleDelete: the mapping it sets
\* a handleDelete that keeps the emptied bucket
DeletedTransactionsAlt(tbm, key, id) ==
  LET Keep(t) == t.id # id
  IN WithKey(tbm, key, FilterSeq(Bucket(tbm, key), Keep))
DeletedTransactions(tbm, key, id) ==
  LET Keep(t) == t.id # id
      updated == FilterSeq(Bucket(tbm, key), Keep)
  IN IF Len(updated) = 0 THEN Rest(tbm, key) ELSE WithKey(tbm, key, updated)

\* TransactionModal.handleSubmit; editing is <<>> or <<the row clicked>>
TransactionSubmit(editing, form) ==
  /\ Idle
  /\ selectedUser # ""
  /\ LET itemResult == validateItem(form.item)
         amountNum == validateAmount(form.amount)
         data == [type |-> form.type, date |-> form.date, item |-> form.item,
                  amount |-> amountNum[1], tag |-> TagOrUndefined(form.tag)]
     IN IF itemResult # ""
        THEN /\ alertMessage' = itemResult
             /\ UNCHANGED <<transactionsByMonth, dirty, clock, editingTransaction>>
        ELSE IF amountNum = None
        THEN /\ alertMessage' = MsgAmount
             /\ UNCHANGED <<transactionsByMonth, dirty, clock, editingTransaction>>
        ELSE IF editing # None
        THEN /\ transactionsByMonth' =
                  UpdatedTransactions(transactionsByMonth, monthKey, editing[1].id, data)
             /\ dirty' = {"transactionsByMonth"}
             /\ editingTransaction' = None
             /\ UNCHANGED <<alertMessage, clock>>
        ELSE /\ \E now \in clock..MaxClock :
                  /\ clock' = now
                  /\ transactionsByMonth' =
                       CreatedTransactions(transactionsByMonth, monthKey, now, data)
             /\ dirty' = {"transactionsByMonth"}
             /\ editingTransaction' = None
             /\ UNCHANGED alertMessage
  /\ last' = NoOp
  /\ UNCHANGED <<users, mainUser, selectedUser, templates, tags, localStorage,
                 mounted, modalState, timers, file, dateState, amount, item, filterTag>>

\* TransactionModal.handleDelete, once the confirmation is accepted
TransactionDelete(editing) ==
  /\ Idle
  /\ selectedUser # ""
  /\ transactionsByMonth' = DeletedTransactions(transactionsByMonth, monthKey, editing.id)
  /\ dirty' = {"transactionsByMonth"}
  /\ editingTransaction' = None
  /\ last' = Did("txnDelete")
  /\ UNCHANGED <<users, mainUser, selectedUser, templates, tags, alertMessage,
                 localStorage, mounted, modalState, timers, file, clock, dateState,
                 amount, item, filterTag>>

\* the rows of the selected month, any of which can be clicked for editing
Rows == LET b == Bucket(transactionsByMonth, monthKey) IN {b[i] : i \in 1..Len(b)}

\* handleEditTransaction: a row is clicked and the modal opens on it
EditTransaction(t) ==
  /\ Idle
  /\ editingTransaction = None
  /\ editingTransaction' = Some(t)
  /\ last' = NoOp
  /\ UNCHANGED <<memory, alertMessage, localStorage, mounted, dirty, modalState,
                 timers, file, clock, dateState, amount, item, filterTag>>

(***************************************************************************)
(* Month navigation (DateDropdowns).                                       *)
(***************************************************************************)
\* handlePrevMonth
PrevMonth ==
  /\ Idle
  /\ IF selectedMonth = 1
     THEN IF selectedYear > 2000
          THEN selectedYear' = selectedYear - 1 /\ selectedMonth' = 12
          ELSE UNCHANGED dateState
     ELSE selectedMonth' = selectedMonth - 1 /\ UNCHANGED selectedYear
  /\ UNCHANGED <<memory, alertMessage, localStorage, mounted, dirty, modalState,
                 timers, file, clock, amount, item, filterTag,
                 editingTransaction, last>>

\* handleNextMonth
NextMonth ==
  /\ Idle
  /\ ~(selectedYear = CurrentYear /\ selectedMonth = CurrentMonth)
  /\ IF selectedMonth = 12
     THEN selectedYear' = selectedYear + 1 /\ selectedMonth' = 1
     ELSE selectedMonth' = selectedMonth + 1 /\ UNCHANGED selectedYear
  /\ UNCHANGED <<memory, alertMessage, localStorage, mounted, dirty, modalState,
                 timers, file, clock, amount, item, filterTag,
                 editingTransaction, last>>

\* parseInt(inputValue, 10): an optional sign and the digits that follow it,
\* read as far as the text allows; NaN (None) when there is no digit.
\* Leading blanks are not modelled.
parseInt(text) ==
  LET signed == text # <<>> /\ Head(text) \in {"-", "+"}
      neg == signed /\ Head(text) = "-"
      body == IF signed THEN Tail(text) ELSE text
      abs == ParseDigits(body, 0)
  IN IF DigitPrefix(body) = <<>> THEN None
     ELSE Some(IF neg THEN 0 - abs ELSE abs)

\* a handleInputConfirm that hands the typed number on as it is
handleInputConfirmAlt(text, min, max) == parseInt(text)
\* NumberInputDropdown.handleInputConfirm: the value it hands to onChange,
\* None when the text is no number and onChange is not called
handleInputConfirm(text, min, max) ==
  LET num == parseInt(text)
  IN IF num = None THEN None
     ELSE IF num[1] > max THEN Some(max)
     ELSE IF num[1] < min THEN Some(min)
     ELSE num

\* DateDropdowns: yearOptions, and the monthOptions of the selected year
yearOptions == 2000..CurrentYear
maxMonth == IF selectedYear = CurrentYear THEN CurrentMonth ELSE 12
monthOptions == 1..maxMonth

\* handleYearChange: the month it leaves
MonthAfterYearChange(newYear, month) ==
  IF newYear = CurrentYear /\ month > CurrentMonth THEN CurrentMonth ELSE month

\* handleYearChange, from an option of the year dropdown or a confirmed input
YearChange(newYear) ==
  /\ Idle
  /\ selectedYear' = newYear
  /\ selectedMonth' = MonthAfterYearChange(newYear, selectedMonth)
  /\ last' = DidWith("year", [month |-> selectedMonth])
  /\ UNCHANGED <<memory, alertMessage, localStorage, mounted, dirty, modalState,
                 timers, file, clock, amount, item, filterTag, editingTransaction>>

\* onMonthChange = setSelectedMonth, from an option of the month dropdown or a
\* confirmed input
MonthChange(newMonth) ==
  /\ Idle
  /\ selectedMonth' = newMonth
  /\ last' = NoOp
  /\ UNCHANGED <<memory, alertMessage, localStorage, mounted, dirty, modalState,
                 timers, file, clock, amount, item, filterTag, editingTransaction,
                 selectedYear>>

\* handleSelect of the year dropdown
YearSelect(opt) == opt \in yearOptions /\ YearChange(opt)
\* handleInputConfirm of the year dropdown, min 2000 and max currentYear
YearInput(text) ==
  /\ handleInputConfirm(text, 2000, CurrentYear) # None
  /\ YearChange(handleInputConfirm(text, 2000, CurrentYear)[1])
\* handleSelect of the month dropdown
MonthSelect(opt) == opt \in monthOptions /\ MonthChange(opt)
\* handleInputConfirm of the month dropdown, min 1 and max maxMonth
MonthInput(text) ==
  /\ handleInputConfirm(text, 1, maxMonth) # None
  /\ MonthChange(handleInputConfirm(text, 1, maxMonth)[1])

(***************************************************************************)
(* Totals and balance (App.tsx).  filterTag and displayPeriod are state of *)
(* App that no handler of the model reads; the totals take them as         *)
(* arguments.                                                              *)
(***************************************************************************)
\* key.startsWith(prefix)
startsWith(key, prefix) ==
  Len(key) >= Len(prefix) /\ SubSeq(key, 1, Len(prefix)) = prefix

\* a filterByCustomTag that also filters by the built-in type names
filterByCustomTagAlt(txns, tag) ==
  IF tag = Null THEN txns
  ELSE LET Has(t) == t.tag = tag IN FilterSeq(txns, Has)

\* filterByCustomTag
filterByCustomTag(txns, tag) ==
  IF tag = Null \/ tag = "expense" \/ tag = "income" THEN txns
  ELSE LET Has(t) == t.tag = tag IN FilterSeq(txns, Has)

RECURSIVE SumFrom(_, _)
\* txns.reduce((sum, t) => sum + t.amount, sum)
SumFrom(txns, sum) ==
  IF txns = <<>> THEN sum ELSE SumFrom(Tail(txns), Plus(sum, Head(txns).amount))

\* the { expense, income, balance } of a list of transactions
Totals(txns) ==
  LET IsExpense(t) == t.type = "expense"
      IsIncome(t) == t.type = "income"
      expense == SumFrom(FilterSeq(txns, IsExpense), Num(0))
      income == SumFrom(FilterSeq(txns, IsIncome), Num(0))
  IN [expense |-> expense, income |-> income, balance |-> Minus(income, expense)]

thisMonthKey == getMonthKey(CurrentYear, CurrentMonth)

thisMonthTotals(tag) ==
  Totals(filterByCustomTag(Bucket(transactionsByMonth, thisMonthKey), tag))

selectedMonthTotals(tag) ==
  Totals(filterByCustomTag(Bucket(transactionsByMonth, monthKey), tag))

RECURSIVE FlatFrom(_, _)
\* the buckets of tbm from the i-th on, in key order of insertion, concatenated
FlatFrom(tbm, i) ==
  IF i > Len(tbm) THEN <<>> ELSE tbm[i].txns \o FlatFrom(tbm, i + 1)

selectedYearTotals(tag) ==
  LET yearPrefix == ToString(selectedYear) \o "-"
      InYear(e) == startsWith(e.key, yearPrefix)
  IN Totals(filterByCustomTag(FlatFrom(FilterSeq(transactionsByMonth, InYear), 1),
                              tag))

displayTotals(displayPeriod, tag) ==
  CASE displayPeriod = "thisMonth" -> thisMonthTotals(tag)
    [] displayPeriod = "selectedMonth" -> selectedMonthTotals(tag)
    [] displayPeriod = "selectedYear" -> selectedYearTotals(tag)

RECURSIVE SignedSumFrom(_, _)
\* allTransactions.reduce((sum, t) => t.type === 'income' ? sum + t.amount
\*                                                         : sum - t.amount, sum)
SignedSumFrom(txns, sum) ==
  IF txns = <<>> THEN sum
  ELSE SignedSumFrom(Tail(txns),
                     IF Head(txns).type = "income" THEN Plus(sum, Head(txns).amount)
                     ELSE Minus(sum, Head(txns).amount))

\* a currentBalance that leaves the user's initial balance out
currentBalanceAlt == SignedSumFrom(FlatFrom(transactionsByMonth, 1), Num(0))

\* currentBalance: user?.balance || 0 plus the signed sum of every bucket
currentBalance ==
  LET IsSelected(u) == u.name = selectedUser
      user == FindSeq(users, IsSelected)
      initialBalance == IF user = None \/ user[1].balance.n = 0 THEN Num(0)
                        ELSE user[1].balance
  IN Plus(initialBalance, SignedSumFrom(FlatFrom(transactionsByMonth, 1), Num(0)))

(***************************************************************************)
(* Templates and tags (Modal.tsx: TemplateModal, TagModal).                *)
(***************************************************************************)
\* a handleSubmit that does not look for another template with the item
TemplateSubmitAlt(editingItem, form) ==
  /\ Idle
  /\ selectedUser # ""
  /\ LET itemResult == validateItem(form.item)
         amountNum == validateAmount(form.amount)
         templateData == [type |-> form.type, item |-> form.item,
                          amount |-> amountNum[1], tag |-> TagOrUndefined(form.tag)]
         Replace(t) == IF t.item = editingItem THEN templateData ELSE t
     IN IF itemResult # ""
        THEN alertMessage' = itemResult /\ UNCHANGED <<templates, dirty>>
        ELSE IF amountNum = None
        THEN alertMessage' = MsgAmount /\ UNCHANGED <<templates, dirty>>
        ELSE /\ templates' = (IF editingItem = "" THEN Append(templates, templateData)
                              ELSE MapSeq(templates, Replace))
             /\ dirty' = {"templates"}
             /\ UNCHANGED alertMessage
  /\ last' = NoOp
  /\ UNCHANGED <<users, mainUser, selectedUser, transactionsByMonth, tags,
                 localStorage, mounted, modalState, timers, file, clock, dateState,
                 amount, item, filterTag, editingTransaction>>

\* TemplateModal.handleSubmit; editingItem is "" when adding
TemplateSubmit(editingItem, form) ==
  /\ Idle
  /\ selectedUser # ""
  /\ LET itemResult == validateItem(form.item)
         amountNum == validateAmount(form.amount)
         Clash(t) == t.item = form.item /\ t.item # editingItem
         templateData == [type |-> form.type, item |-> form.item,
                          amount |-> amountNum[1], tag |-> TagOrUndefined(form.tag)]
         Replace(t) == IF t.item = editingItem THEN templateData ELSE t
     IN IF itemResult # ""
        THEN alertMessage' = itemResult /\ UNCHANGED <<templates, dirty>>
        ELSE IF amountNum = None
        THEN alertMessage' = MsgAmount /\ UNCHANGED <<templates, dirty>>
        ELSE IF SomeSeq(templates, Clash)
        THEN alertMessage' = MsgTemplateUsed /\ UNCHANGED <<templates, dirty>>
        ELSE /\ templates' = (IF editingItem = "" THEN Append(templates, templateData)
                              ELSE MapSeq(templates, Replace))
             /\ dirty' = {"templates"}
             /\ UNCHANGED alertMessage
  /\ last' = NoOp
  /\ UNCHANGED <<users, mainUser, selectedUser, transactionsByMonth, tags,
                 localStorage, mounted, modalState, timers, file, clock, dateState, amount, item, filterTag,
                 editingTransaction>>

\* TemplateModal.handleDelete, once the confirmation is accepted
TemplateDelete(editingItem) ==
  /\ Idle
  /\ selectedUser # ""
  /\ editingItem # ""
  /\ templates' = (LET Keep(t) == t.item # editingItem IN FilterSeq(templates, Keep))
  /\ dirty' = {"templates"}
  /\ last' = NoOp
  /\ UNCHANGED <<users, mainUser, selectedUser, transactionsByMonth, tags,
                 alertMessage, localStorage, mounted, modalState, timers, file,
                 clock, dateState, amount, item, filterTag,
                 editingTransaction>>

\* t.tag === editingName ? { ...t, tag: name } : t
Retag(t, editingName, name) == IF t.tag = editingName THEN [t EXCEPT !.tag = name] ELSE t

\* TagModal.handleSubmit, rename cascade: the transactions it sets
RetaggedTransactions(tbm, editingName, name) ==
  LET R(t) == Retag(t, editingName, name)
  IN [i \in 1..Len(tbm) |-> [key |-> tbm[i].key, txns |-> MapSeq(tbm[i].txns, R)]]

\* TagModal.handleSubmit, rename cascade: the templates it sets
\* a cascade that skips the templates
RetaggedTemplatesAlt(tpls, editingName, name) == tpls
RetaggedTemplates(tpls, editingName, name) ==
  LET R(t) == Retag(t, editingName, name) IN MapSeq(tpls, R)

\* TagModal.handleSubmit; editingName is "" when adding
TagSubmit(editingName, name, color) ==
  /\ Idle
  /\ selectedUser # ""
  /\ LET nameResult == validateTagName(name)
         Clash(t) == t.name = name /\ t.name # editingName
         tagData == [name |-> name, color |-> color]
         Replace(t) == IF t.name = editingName THEN tagData ELSE t
     IN IF nameResult # ""
        THEN /\ alertMessage' = nameResult
             /\ last' = NoOp
             /\ UNCHANGED <<tags, transactionsByMonth, templates, dirty>>
        ELSE IF color = ""
        THEN /\ alertMessage' = MsgColor
             /\ last' = NoOp
             /\ UNCHANGED <<tags, transactionsByMonth, templates, dirty>>
        ELSE IF SomeSeq(tags, Clash)
        THEN /\ alertMessage' = MsgTagUsed
             /\ last' = NoOp
             /\ UNCHANGED <<tags, transactionsByMonth, templates, dirty>>
        ELSE IF editingName = ""
        THEN /\ tags' = Append(tags, tagData)
             /\ dirty' = {"tags"}
             /\ last' = NoOp
             /\ UNCHANGED <<alertMessage, transactionsByMonth, templates>>
        ELSE IF editingName # name
        THEN /\ tags' = MapSeq(tags, Replace)
             /\ transactionsByMonth' =
                  RetaggedTransactions(transactionsByMonth, editingName, name)
             /\ templates' = RetaggedTemplates(templates, editingName, name)
             /\ dirty' = {"tags", "transactionsByMonth", "templates"}
             /\ last' = DidWith("tagRename",
                                 [from |-> editingName, to |-> name,
                                  transactions |-> transactionsByMonth,
                                  templates |-> templates])
             /\ UNCHANGED alertMessage
        ELSE /\ tags' = MapSeq(tags, Replace)
             /\ dirty' = {"tags"}
             /\ last' = NoOp
             /\ UNCHANGED <<alertMessage, transactionsByMonth, templates>>
  /\ UNCHANGED <<users, mainUser, selectedUser, localStorage, mounted, modalState,
                 timers, file, clock, dateState, amount, item, filterTag,
                 editingTransaction>>

\* a handleDelete that also takes the tag off the templates carrying it
TagDeleteAlt(editingName) ==
  /\ Idle
  /\ selectedUser # ""
  /\ editingName # ""
  /\ tags' = (LET Keep(t) == t.name # editingName IN FilterSeq(tags, Keep))
  /\ templates' = RetaggedTemplates(templates, editingName, Undefined)
  /\ dirty' = {"tags", "templates"}
  /\ last' = NoOp
  /\ UNCHANGED <<users, mainUser, selectedUser, transactionsByMonth,
                 alertMessage, localStorage, mounted, modalState, timers, file,
                 clock, dateState, amount, item, filterTag, editingTransaction>>

\* TagModal.handleDelete, once the confirmation is accepted
TagDelete(editingName) ==
  /\ Idle
  /\ selectedUser # ""
  /\ editingName # ""
  /\ tags' = (LET Keep(t) == t.name # editingName IN FilterSeq(tags, Keep))
  /\ dirty' = {"tags"}
  /\ last' = NoOp
  /\ UNCHANGED <<users, mainUser, selectedUser, transactionsByMonth, templates,
                 alertMessage, localStorage, mounted, modalState, timers, file,
                 clock, dateState, amount, item, filterTag,
                 editingTransaction>>

(***************************************************************************)
(* The tag filter of the transaction table (App.tsx).                      *)
(***************************************************************************)
\* const transactions = transactionsByMonth[getMonthKey(...)] || []
transactions == Bucket(transactionsByMonth, monthKey)

\* filteredTransactions
filteredTransactions ==
  IF filterTag = Null THEN transactions
  ELSE IF filterTag = "expense" \/ filterTag = "income"
  THEN LET Untagged(t) == ~HasTag(t) /\ t.type = filterTag
       IN FilterSeq(transactions, Untagged)
  ELSE LET Tagged(t) == t.tag = filterTag IN FilterSeq(transactions, Tagged)

\* the rows the table shows, any of which carries a clickable tag
ShownRows == {filteredTransactions[i] : i \in 1..Len(filteredTransactions)}

\* handleTagClick: tagName || type
clickedTag(t) == IF HasTag(t) THEN t.tag ELSE t.type

\* history: was the previous step a click on the same value
ClickedLast(value) == last.op = "tagClick" /\ last.data[1].clicked = value

\* a handleTagClick that always sets the filter to the clicked value
TagClickAlt(t) ==
  /\ Idle
  /\ editingTransaction = None
  /\ filterTag' = clickedTag(t)
  /\ last' = DidWith("tagClick", [clicked |-> clickedTag(t), before |-> filterTag,
                                   again |-> ClickedLast(clickedTag(t))])
  /\ UNCHANGED <<memory, alertMessage, localStorage, mounted, dirty, modalState,
                 timers, file, clock, dateState, amount, item, editingTransaction>>
\* handleTagClick on the tag of a shown row
TagClick(t) ==
  /\ Idle
  /\ editingTransaction = None
  /\ filterTag' = (IF filterTag = clickedTag(t) THEN Null ELSE clickedTag(t))
  /\ last' = DidWith("tagClick", [clicked |-> clickedTag(t), before |-> filterTag,
                                   again |-> ClickedLast(clickedTag(t))])
  /\ UNCHANGED <<memory, alertMessage, localStorage, mounted, dirty, modalState,
                 timers, file, clock, dateState, amount, item, editingTransaction>>

\* the filter-clear-button of the table head
ClearFilter ==
  /\ Idle
  /\ editingTransaction = None
  /\ filterTag # Null
  /\ filterTag' = Null
  /\ last' = NoOp
  /\ UNCHANGED <<memory, alertMessage, localStorage, mounted, dirty, modalState,
                 timers, file, clock, dateState, amount, item, editingTransaction>>

(***************************************************************************)
(* Inputs of the model.                                                    *)
(***************************************************************************)
\* names typed into the user and rename forms
NameInputs == {"A", "B"}
\* texts typed into the initial-balance field
BalanceInputs == {<<"1", "0", "0", "0">>}

SampleTransaction ==
  [id |-> 9, type |-> "expense", date |-> 5, item |-> "Coffee", amount |-> Num(400),
   tag |-> Absent]
SampleTransactions == <<[key |-> "2024-03", txns |-> <<SampleTransaction>>]>>
SampleTemplate == [type |-> "income", item |-> "Salary", amount |-> Num(900), tag |-> "pay"]
SampleTag == [name |-> "pay", color |-> "#2ecc71"]

\* files offered to the import: a dataset of A without templates and tags
\* and a full dataset of B
FileA ==
  Base64Encode([user |-> Some([name |-> "A", balance |-> Num(1000)]),
                transactions |-> Some(SampleTransactions),
                templates |-> None, tags |-> None, exportedAt |-> 0])
FileB ==
  Base64Encode([user |-> Some([name |-> "B", balance |-> Num(0)]),
                transactions |-> Some(<<>>),
                templates |-> Some(<<SampleTemplate>>),
                tags |-> Some(<<SampleTag>>), exportedAt |-> 0])
ImportFiles == {FileA, FileB}
\* the file a previous export left, if any
ExportedFiles == IF file = None THEN {} ELSE {file[1]}

\* forms submitted by the specifications
CoffeeForm ==
  [type |-> "expense", date |-> 5, item |-> "Coffee", amount |-> <<"4", "0", "0">>,
   tag |-> ""]
BonusForm ==
  [type |-> "income", date |-> 5, item |-> "Bonus", amount |-> <<"7">>, tag |-> ""]
NoItemForm == [CoffeeForm EXCEPT !.item = ""]
ZeroForm == [CoffeeForm EXCEPT !.amount = <<"0">>]
TransactionForms == {CoffeeForm, BonusForm, NoItemForm, ZeroForm}

(***************************************************************************)
(* Spec: users, selection, persistence and import.                        *)
(***************************************************************************)
Next ==
  \/ FlushEffects
  \/ \E n \in NameInputs, b \in BalanceInputs : UserSubmit(n, b)
  \/ \E n \in AllNames : SelectUser(n)
  \/ SetMainUser
  \/ DeleteUser
  \/ \E n \in NameInputs : RenameSubmit(n)
  \/ DismissAlert
  \/ Reload
  \/ \E f \in ImportFiles : Import(f)
  \/ ImportConfirm
  \/ ImportCancel
  \/ TimerFire
  \/ TemplateSubmit("", CoffeeForm)

Spec == Init /\ [][Next]_vars

(***************************************************************************)
(* SpecExport: a dataset is built, exported, and imported again.          *)
(***************************************************************************)
NextExport ==
  \/ FlushEffects
  \/ \E n \in NameInputs, b \in BalanceInputs : UserSubmit(n, b)
  \/ \E n \in AllNames : SelectUser(n)
  \/ DeleteUser
  \/ DismissAlert
  \/ Export
  \/ \E f \in ExportedFiles : Import(f)
  \/ ImportConfirm
  \/ ImportCancel
  \/ TimerFire
  \/ /\ Len(Bucket(transactionsByMonth, monthKey)) < MaxSmallBucket
     /\ TransactionSubmit(None, CoffeeForm)
  \/ TemplateSubmit("", CoffeeForm)

SpecExport == Init /\ [][NextExport]_vars

(***************************************************************************)
(* SpecTxn: the transactions of one selected user over the current month  *)
(* and the one before it.  It starts where Spec is once user A has been   *)
(* created and the store has settled.                                      *)
(***************************************************************************)
InitSelected ==
  /\ users = <<[name |-> "A", balance |-> Num(1000)]>>
  /\ mainUser = "A"
  /\ selectedUser = "A"
  /\ transactionsByMonth = <<>>
  /\ templates = <<>>
  /\ tags = <<>>
  /\ alertMessage = ""
  /\ localStorage =
       [users |-> Some(users), mainUser |-> Some("A"),
        transactions |-> [n \in AllNames |-> IF n = "A" THEN Some(<<>>) ELSE None],
        templates |-> [n \in AllNames |-> IF n = "A" THEN Some(<<>>) ELSE None],
        tags |-> [n \in AllNames |-> IF n = "A" THEN Some(<<>>) ELSE None]]
  /\ mounted = TRUE
  /\ dirty = {}
  /\ importData = None
  /\ isImportConfirmOpen = FALSE
  /\ timers = <<>>
  /\ file = None
  /\ clock = 1
  /\ selectedYear = CurrentYear
  /\ selectedMonth = CurrentMonth
  /\ amount = <<>>
  /\ item = ""
  /\ filterTag = Null
  /\ editingTransaction = None
  /\ last = NoOp

NextTxn ==
  \/ FlushEffects
  \/ DismissAlert
  \/ /\ Len(Bucket(transactionsByMonth, monthKey)) < MaxBucket
     /\ \E form \in TransactionForms : TransactionSubmit(None, form)
  \/ \E t \in Rows, form \in TransactionForms : TransactionSubmit(Some(t), form)
  \/ \E t \in Rows : TransactionDelete(t)
  \/ selectedMonth = CurrentMonth /\ PrevMonth
  \/ NextMonth

SpecTxn == InitSelected /\ [][NextTxn]_vars

(***************************************************************************)
(* SpecTag: the tags, the template and the tagged transactions of one     *)
(* selected user, over the current month and the one before it.           *)
(***************************************************************************)
TagNameInputs == {"food", "meal"}
ColorInputs == {"#e74c3c"}
TagNames == {tags[i].name : i \in 1..Len(tags)}
TemplateItems == {templates[i].item : i \in 1..Len(templates)}
\* the TagDropdown's options
TagOptions == {""} \cup TagNames

NextTag ==
  \/ FlushEffects
  \/ DismissAlert
  \/ /\ Len(tags) < MaxList
     /\ \E name \in TagNameInputs, color \in ColorInputs : TagSubmit("", name, color)
  \/ \E old \in TagNames, name \in TagNameInputs, color \in ColorInputs :
       TagSubmit(old, name, color)
  \/ \E old \in TagNames : TagDelete(old)
  \/ /\ Len(Bucket(transactionsByMonth, monthKey)) < MaxSmallBucket
     /\ \E tag \in TagOptions : TransactionSubmit(None, [CoffeeForm EXCEPT !.tag = tag])
  \/ \E tag \in TagOptions : TemplateSubmit("", [CoffeeForm EXCEPT !.tag = tag])
  \/ \E editingItem \in TemplateItems : TemplateDelete(editingItem)
  \/ selectedMonth = CurrentMonth /\ PrevMonth
  \/ NextMonth

SpecTag == InitSelected /\ [][NextTag]_vars

(***************************************************************************)
(* Properties of the store (Spec).                                         *)
(***************************************************************************)
\* the value a storage entry holds, the default when the key is absent
StoredOrEmpty(entry) == IF entry = None THEN <<>> ELSE entry[1]

\* C10: whenever no effect is pending, the stored users and mainUser equal
\* the in-memory values and, when a user is selected, the values stored under
\* its three keys are the serialised in-memory transactions, templates and tags.
StoreMirrorsMemory ==
  Settled =>
    /\ localStorage.users = Some(StringifyUsers(users))
    /\ localStorage.mainUser = Some(mainUser)
    /\ selectedUser # "" =>
         /\ localStorage.transactions[selectedUser]
              = Some(StringifyTransactions(transactionsByMonth))
         /\ localStorage.templates[selectedUser] = Some(StringifyList(templates))
         /\ localStorage.tags[selectedUser] = Some(tags)

\* a settled state in which a selected user holds templates and tags
StoreMirrorsMemoryWitness ==
  /\ Settled
  /\ selectedUser # ""
  /\ templates # <<>>
  /\ tags # <<>>
  /\ Len(users) = 2

\* the handlers after which the selected user can differ from the one before
SwitchOps ==
  {"select", "create", "delete", "rename", "importExisting", "importNew", "reload"}

\* C9: once the store has settled after the selected user changed to N, the
\* in-memory collections are the values stored under N's three keys right
\* before the change, empty where a key was absent; after a change to the
\* empty name they are empty.
LoadsOnSwitch ==
  (Settled /\ last.op \in SwitchOps /\ selectedUser # last.sel) =>
    IF selectedUser = ""
    THEN transactionsByMonth = <<>> /\ templates = <<>> /\ tags = <<>>
    ELSE /\ transactionsByMonth = StoredOrEmpty(last.ls.transactions[selectedUser])
         /\ templates = StoredOrEmpty(last.ls.templates[selectedUser])
         /\ tags = StoredOrEmpty(last.ls.tags[selectedUser])

\* a settled switch, by the dropdown, to a user whose keys held templates
LoadsOnSwitchWitness ==
  /\ Settled
  /\ last.op = "select"
  /\ selectedUser # last.sel
  /\ last.sel # ""
  /\ templates # <<>>
  /\ last.ls.templates[last.sel] # last.ls.templates[selectedUser]

\* C8: from the moment the dropdown switches the selected user, in every
\* state during the switch and after it, the stored transactions, templates
\* and tags of every user are what they were before the switch.
SwitchKeepsStorage ==
  last.op = "select" =>
    /\ localStorage.transactions = last.ls.transactions
    /\ localStorage.templates = last.ls.templates
    /\ localStorage.tags = last.ls.tags

\* C7: a request to delete the selected user while it is the main user only
\* sets the error message: the user list, mainUser, selectedUser, the
\* collections and the storage are unchanged and no write is pending.
DeleteMainRefused ==
  [][(DeleteUser /\ selectedUser = mainUser) =>
       /\ alertMessage' = MsgCannotDeleteMain
       /\ UNCHANGED <<memory, localStorage>>
       /\ dirty' = {}]_vars

\* the refusal is on screen
DeleteMainRefusedWitness ==
  /\ alertMessage = MsgCannotDeleteMain
  /\ selectedUser = mainUser
  /\ Len(users) = 2

\* did the handler recorded in last find a main user in the user list
HadMain ==
  /\ last.ls.mainUser # None
  /\ last.ls.users # None
  /\ last.ls.mainUser[1] \in UserNames(last.ls.users[1])

\* C6: when the user list is non-empty mainUser names exactly one user of
\* it, and a user created while no user is main becomes main.
ExactlyOneMain ==
  /\ users # <<>> =>
       Cardinality({i \in 1..Len(users) : users[i].name = mainUser}) = 1
  /\ (last.op = "create" /\ ~HadMain) => mainUser = selectedUser

\* the import data the handler recorded in last applied
Imported == last.data[1]

\* C1: once the store has settled after an import was applied to an existing
\* user, that user's in-memory and stored transactions are the imported
\* ones, and so are its templates and tags when the import carries them.
ImportReplaces ==
  (Settled /\ last.op = "importExisting") =>
    LET n == Imported.user[1].name
    IN /\ selectedUser = n
       /\ transactionsByMonth = Imported.transactions[1]
       /\ localStorage.transactions[n] = Some(Imported.transactions[1])
       /\ Imported.templates # None =>
            /\ templates = Imported.templates[1]
            /\ localStorage.templates[n] = Some(Imported.templates[1])
       /\ Imported.tags # None =>
            /\ tags = Imported.tags[1]
            /\ localStorage.tags[n] = Some(Imported.tags[1])

\* does an import differ, as serialised, from the values stored for its user
Differs(data) ==
  LET n == data.user[1].name
  IN \/ Some(StringifyTransactions(data.transactions[1])) # localStorage.transactions[n]
     \/ /\ data.templates # None
        /\ Some(StringifyList(data.templates[1])) # localStorage.templates[n]
     \/ /\ data.tags # None
        /\ Some(data.tags[1]) # localStorage.tags[n]

\* C2: an import for an existing user opens the confirmation, changing
\* nothing else, exactly when its transactions, templates or tags differ
\* from the stored ones, and is applied at once when none differs; declining
\* the confirmation changes no user, no collection and no stored value.
ImportAsksOnDifference ==
  [][/\ \A f \in ImportFiles :
          (Import(f) /\ ImportTargetExists(f.json)) =>
            IF Differs(f.json)
            THEN /\ isImportConfirmOpen'
                 /\ importData' = Some(f.json)
                 /\ UNCHANGED <<memory, localStorage, dirty>>
            ELSE /\ ~isImportConfirmOpen'
                 /\ last' = DidWith("importExisting", f.json)
     /\ ImportCancel =>
          /\ ~isImportConfirmOpen'
          /\ UNCHANGED <<memory, localStorage, dirty>>]_vars

\* the confirmation is open for an import that differs in its templates only
ImportAsksOnDifferenceWitness ==
  /\ isImportConfirmOpen
  /\ importData # None
  /\ LET n == importData[1].user[1].name
     IN /\ Some(importData[1].transactions[1]) = localStorage.transactions[n]
        /\ Some(importData[1].templates[1]) # localStorage.templates[n]

NoEmptyBucket(tbm) == \A i \in 1..Len(tbm) : tbm[i].txns # <<>>

\* C5: no month key of the selected user's transactions, in memory or
\* stored, maps to an empty collection; deleting the last transaction of a
\* bucket removes its key, and a create in a month without a key adds the
\* key with exactly one entry.
BucketsNeverEmpty ==
  /\ [](/\ NoEmptyBucket(transactionsByMonth)
        /\ NoEmptyBucket(StoredOrEmpty(localStorage.transactions[selectedUser])))
  /\ [][\A t \in Rows :
          (TransactionDelete(t) /\ Len(Bucket(transactionsByMonth, monthKey)) = 1)
            => ~HasKey(transactionsByMonth', monthKey)]_vars
  /\ [][\A form \in TransactionForms :
          (/\ TransactionSubmit(None, form)
           /\ ~HasKey(transactionsByMonth, monthKey)
           /\ transactionsByMonth' # transactionsByMonth)
            => /\ HasKey(transactionsByMonth', monthKey)
               /\ Len(Bucket(transactionsByMonth', monthKey)) = 1]_vars

\* the last transaction of the selected month has just been deleted while
\* another month keeps its bucket
BucketsNeverEmptyWitness ==
  /\ last.op = "txnDelete"
  /\ ~HasKey(transactionsByMonth, monthKey)
  /\ transactionsByMonth # <<>>

(***************************************************************************)
(* Properties of the tags (SpecTag).                                       *)
(***************************************************************************)
\* the number of transactions and templates whose tag is name
Tagged(tbm, tpls, name) ==
  Cardinality(UNION {{<<i, j>> : j \in {k \in 1..Len(tbm[i].txns) :
                                           tbm[i].txns[k].tag = name}} :
                     i \in 1..Len(tbm)})
  + Cardinality({i \in 1..Len(tpls) : tpls[i].tag = name})

\* the record after differs from the record before in its tag only, and
\* only when that tag was from
OnlyTagRewritten(before, after, from, to) ==
  after = [before EXCEPT !.tag = IF @ = from THEN to ELSE @]

\* after a rename of a tag, every transaction of every month and every
\* template is the record it was, its tag rewritten when it was the old name
Cascaded ==
  LET d == last.data[1]
  IN /\ Len(transactionsByMonth) = Len(d.transactions)
     /\ \A i \in 1..Len(d.transactions) :
          /\ transactionsByMonth[i].key = d.transactions[i].key
          /\ Len(transactionsByMonth[i].txns) = Len(d.transactions[i].txns)
          /\ \A j \in 1..Len(d.transactions[i].txns) :
               OnlyTagRewritten(d.transactions[i].txns[j],
                                transactionsByMonth[i].txns[j], d.from, d.to)
     /\ Len(templates) = Len(d.templates)
     /\ \A i \in 1..Len(d.templates) :
          OnlyTagRewritten(d.templates[i], templates[i], d.from, d.to)

\* C4, amended: a rename of a tag from A to B rewrites to B the tag of every
\* transaction and template tagged A and changes nothing else, and the
\* number of records tagged B afterwards is the number tagged A before plus
\* the number already tagged B before.
TagRenameCascades ==
  last.op = "tagRename" =>
    LET d == last.data[1]
    IN /\ Cascaded
       /\ Tagged(transactionsByMonth, templates, d.to)
            = Tagged(d.transactions, d.templates, d.from)
              + Tagged(d.transactions, d.templates, d.to)

\* C4 as stated: the number of records tagged B afterwards is the number
\* tagged A before.
TagRenameKeepsCount ==
  last.op = "tagRename" =>
    LET d == last.data[1]
    IN /\ Cascaded
       /\ Tagged(transactionsByMonth, templates, d.to)
            = Tagged(d.transactions, d.templates, d.from)

\* a rename has just rewritten a transaction and a template
TagRenameCascadesWitness ==
  /\ last.op = "tagRename"
  /\ LET d == last.data[1]
     IN /\ Tagged(d.transactions, <<>>, d.from) > 0
        /\ Tagged(<<>>, d.templates, d.from) > 0
        /\ Tagged(transactionsByMonth, templates, d.to) > 1

(***************************************************************************)
(* SpecReject: one selected user whose forms and imports receive invalid  *)
(* input next to valid input.                                              *)
(***************************************************************************)
\* names typed into the user and rename forms: empty, in use or free, and
\* one of nine characters
RejectNameInputs == {"", "A", "B", "ABCDEFGHI"}
\* tag names typed: empty, valid, of five characters, reserved
RejectTagInputs == {"", "food", "meals", LabelExpense}
\* the color field: nothing chosen, or a preset
RejectColorInputs == {"", "#e74c3c"}
\* a form whose item has thirteen characters
LongItemForm == [CoffeeForm EXCEPT !.item = "ABCDEFGHIJKLM"]
RejectForms == {CoffeeForm, NoItemForm, ZeroForm, LongItemForm}

\* files the import cannot use: no user, no transactions, not Base64 of JSON
FileNoUser ==
  Base64Encode([user |-> None, transactions |-> Some(SampleTransactions),
                templates |-> None, tags |-> None, exportedAt |-> 0])
FileNoTransactions ==
  Base64Encode([user |-> Some([name |-> "A", balance |-> Num(1000)]),
                transactions |-> None, templates |-> None, tags |-> None,
                exportedAt |-> 0])
FileGarbage == [b64 |-> FALSE, json |-> <<>>]
RejectFiles == {FileNoUser, FileNoTransactions, FileGarbage}

NextReject ==
  \/ FlushEffects
  \/ DismissAlert
  \/ \E n \in RejectNameInputs, b \in BalanceInputs : UserSubmit(n, b)
  \/ \E n \in RejectNameInputs : RenameSubmit(n)
  \/ /\ Len(Bucket(transactionsByMonth, monthKey)) < MaxSmallBucket
     /\ \E form \in RejectForms : TransactionSubmit(None, form)
  \/ \E t \in Rows, form \in RejectForms : TransactionSubmit(Some(t), form)
  \/ \E form \in RejectForms : TemplateSubmit("", form)
  \/ \E editingItem \in TemplateItems, form \in RejectForms : TemplateSubmit(editingItem, form)
  \/ \E name \in RejectTagInputs, color \in RejectColorInputs :
       TagSubmit("", name, color)
  \/ \E old \in TagNames, name \in RejectTagInputs, color \in RejectColorInputs :
       TagSubmit(old, name, color)
  \/ \E f \in RejectFiles : Import(f)

SpecReject == InitSelected /\ [][NextReject]_vars

(***************************************************************************)
(* Properties of rejected input (SpecReject).                              *)
(***************************************************************************)
\* a name the user form may not take
BadName(name) == name = "" \/ Len(name) > 8 \/ name \in UserNames(users)
\* a form whose item or amount the transaction and template forms refuse
BadForm(form) ==
  \/ form.item = ""
  \/ Len(form.item) > 12
  \/ validateAmount(form.amount) = None
\* a tag form the tag modal refuses when the tag edited is editingName
BadTag(editingName, name, color) ==
  \/ name = ""
  \/ Len(name) > 4
  \/ name \in {LabelExpense, LabelIncome}
  \/ color = ""
  \/ name \in (TagNames \ {editingName})
\* the step sets the alert message and nothing else
OnlyAlerts ==
  /\ alertMessage' # ""
  /\ UNCHANGED <<memory, localStorage, mounted, dirty, modalState, timers, file,
                 clock, dateState, amount, item, filterTag,
                 editingTransaction>>

\* C11: a rejected operation - a user creation or rename with a bad name, a
\* transaction or template submit with a bad item or amount or with another
\* template's item, a tag submit with a bad name, no color or another tag's
\* name, an import that cannot be decoded or lacks user or transactions -
\* sets the alert message and changes no user, no collection, no stored
\* value and nothing pending.
RejectionKeepsState ==
  [][/\ \A n \in RejectNameInputs, b \in BalanceInputs :
          (UserSubmit(n, b) /\ BadName(n)) => OnlyAlerts
     /\ \A n \in RejectNameInputs :
          (RenameSubmit(n) /\ n # selectedUser /\ BadName(n)) => OnlyAlerts
     /\ \A form \in RejectForms :
          (TransactionSubmit(None, form) /\ BadForm(form)) => OnlyAlerts
     /\ \A t \in Rows, form \in RejectForms :
          (TransactionSubmit(Some(t), form) /\ BadForm(form)) => OnlyAlerts
     /\ \A editingItem \in TemplateItems \cup {""}, form \in RejectForms :
          (/\ TemplateSubmit(editingItem, form)
           /\ BadForm(form) \/ form.item \in (TemplateItems \ {editingItem}))
            => OnlyAlerts
     /\ \A old \in TagNames \cup {""}, name \in RejectTagInputs,
           color \in RejectColorInputs :
          (TagSubmit(old, name, color) /\ BadTag(old, name, color)) => OnlyAlerts
     /\ \A f \in RejectFiles : Import(f) => OnlyAlerts]_vars

\* a template with another template's item has just been refused while the
\* user holds a transaction, a template and a tag
RejectionKeepsStateWitness ==
  /\ alertMessage = MsgTemplateUsed
  /\ transactionsByMonth # <<>>
  /\ templates # <<>>
  /\ tags # <<>>

(***************************************************************************)
(* Totals: transactions of both types, with and without a tag, in the     *)
(* current month and in the December before the current year.             *)
(***************************************************************************)
FoodForm == [CoffeeForm EXCEPT !.tag = "food"]
TotalsForms == {CoffeeForm, BonusForm, FoodForm}

NextTotals ==
  \/ FlushEffects
  \/ /\ tags = <<>>
     /\ \E color \in ColorInputs : TagSubmit("", "food", color)
  \/ /\ \/ /\ selectedMonth = CurrentMonth
           /\ Len(Bucket(transactionsByMonth, monthKey)) < MaxBucket
        \/ /\ selectedMonth = 12
           /\ Len(Bucket(transactionsByMonth, monthKey)) < MaxSmallBucket
     /\ \E form \in TotalsForms :
          form.tag \in TagOptions /\ TransactionSubmit(None, form)
  \/ selectedYear = CurrentYear /\ PrevMonth
  \/ NextMonth

SpecTotals == InitSelected /\ [][NextTotals]_vars

(***************************************************************************)
(* Properties of the totals (SpecTotals).                                  *)
(***************************************************************************)
RECURSIVE SumOfType(_, _)
\* the sum of the amounts of the transactions of one type in a list
SumOfType(txns, type) ==
  IF txns = <<>> THEN Num(0)
  ELSE LET n == Len(txns)
           rest == SumOfType(SubSeq(txns, 1, n - 1), type)
       IN IF txns[n].type = type THEN Plus(txns[n].amount, rest) ELSE rest

RECURSIVE SumOfBuckets(_, _, _)
\* the sum of the amounts of the transactions of one type in the first n buckets
SumOfBuckets(tbm, n, type) ==
  IF n = 0 THEN Num(0)
  ELSE Plus(SumOfType(tbm[n].txns, type), SumOfBuckets(tbm, n - 1, type))

\* the mapping holds one expense of 400 in March 2024 and nothing else
SingleExpense ==
  /\ Len(transactionsByMonth) = 1
  /\ transactionsByMonth[1].key = "2024-03"
  /\ Len(transactionsByMonth[1].txns) = 1
  /\ transactionsByMonth[1].txns[1].type = "expense"
  /\ transactionsByMonth[1].txns[1].amount = Num(400)

\* C12: the current balance is the selected user's initial balance plus the
\* amounts of all income transactions minus the amounts of all expense
\* transactions of every bucket, whatever month is selected; with balance 1000
\* and a single expense of 400 in March 2024 it is 600 and the totals of
\* March 2024 are expense 400, income 0, balance -400.
BalanceIsSignedSum ==
  \A i \in 1..Len(users) :
    users[i].name = selectedUser =>
      /\ currentBalance =
           Minus(Plus(users[i].balance,
                      SumOfBuckets(transactionsByMonth, Len(transactionsByMonth), "income")),
                 SumOfBuckets(transactionsByMonth, Len(transactionsByMonth), "expense"))
      /\ (users[i].balance = Num(1000) /\ SingleExpense) =>
           /\ currentBalance = Num(600)
           /\ thisMonthKey = "2024-03" =>
                thisMonthTotals(Null) =
                  [expense |-> Num(400), income |-> Num(0), balance |-> Num(0 - 400)]
           /\ monthKey = "2024-03" =>
                selectedMonthTotals(Null) =
                  [expense |-> Num(400), income |-> Num(0), balance |-> Num(0 - 400)]

\* two expenses of 400 and an income of 7 lie in two buckets while a month
\* other than the current one is selected
BalanceIsSignedSumWitness ==
  /\ Len(transactionsByMonth) = 2
  /\ selectedMonth # CurrentMonth
  /\ currentBalance = Num(207)

\* the scenario of the single expense of 400 in March 2024
BalanceScenarioWitness ==
  SingleExpense /\ monthKey = "2024-03" /\ currentBalance = Num(600)

\* the values the tag filter can take: none, a built-in type name, a tag name
Filters == {Null, "expense", "income", "food", "meal"}
Periods == {"thisMonth", "selectedMonth", "selectedYear"}

\* the transaction passes the filter
Passes(t, f) == f \in {Null, "expense", "income"} \/ t.tag = f

\* where the transactions of one type that pass the filter lie in the buckets
\* with a key in keys: <<bucket, position>>
WindowOf(keys, type, f) ==
  UNION {{<<i, j>> : j \in {k \in 1..Len(transactionsByMonth[i].txns) :
                              /\ transactionsByMonth[i].txns[k].type = type
                              /\ Passes(transactionsByMonth[i].txns[k], f)}} :
         i \in {b \in 1..Len(transactionsByMonth) : transactionsByMonth[b].key \in keys}}

RECURSIVE SumAt(_)
\* the sum of the amounts of the transactions at the places of S
SumAt(S) ==
  IF S = {} THEN Num(0)
  ELSE LET p == CHOOSE q \in S : TRUE
       IN Plus(transactionsByMonth[p[1]].txns[p[2]].amount, SumAt(S \ {p}))

\* the totals of a window as they should be
WindowTotals(keys, f) ==
  LET expense == SumAt(WindowOf(keys, "expense", f))
      income == SumAt(WindowOf(keys, "income", f))
  IN [expense |-> expense, income |-> income, balance |-> Minus(income, expense)]

\* the keys of a window
WindowKeys(period) ==
  CASE period = "thisMonth" -> {getMonthKey(CurrentYear, CurrentMonth)}
    [] period = "selectedMonth" -> {getMonthKey(selectedYear, selectedMonth)}
    [] period = "selectedYear" -> {getMonthKey(selectedYear, m) : m \in 1..12}

\* C13: for the current month, the selected month and the selected year, the
\* totals are the sum of the expense amounts and the sum of the income
\* amounts of the window's transactions that pass the filter, and their
\* difference income - expense; no filter and a built-in type name pass every
\* transaction, a tag name passes the transactions carrying that tag; the
\* year window is the buckets of the selected year.
TotalsOfWindows ==
  \A f \in Filters :
    /\ thisMonthTotals(f) = WindowTotals(WindowKeys("thisMonth"), f)
    /\ selectedMonthTotals(f) = WindowTotals(WindowKeys("selectedMonth"), f)
    /\ selectedYearTotals(f) = WindowTotals(WindowKeys("selectedYear"), f)
    /\ \A period \in Periods :
         displayTotals(period, f) = WindowTotals(WindowKeys(period), f)

\* last December is selected; this month holds a tagged and an untagged
\* expense, last December an income
TotalsOfWindowsWitness ==
  /\ selectedYear # CurrentYear
  /\ thisMonthTotals("food").expense = Num(400)
  /\ thisMonthTotals("expense").expense = Num(800)
  /\ selectedYearTotals(Null).income = Num(7)
  /\ selectedMonthTotals("food").income = Num(0)

(***************************************************************************)
(* Editing: a row is clicked, the modal stays open on it while the file    *)
(* picked for import is read and its callbacks run, then the form is      *)
(* submitted.                                                              *)
(***************************************************************************)
\* a dataset of B with the sample transaction
FileRow ==
  Base64Encode([user |-> Some([name |-> "B", balance |-> Num(0)]),
                transactions |-> Some(SampleTransactions),
                templates |-> None, tags |-> None, exportedAt |-> 0])
EditForms == {CoffeeForm, BonusForm, FoodForm}

NextEdit ==
  \/ FlushEffects
  \/ DismissAlert
  \/ /\ editingTransaction = None
     /\ Len(Bucket(transactionsByMonth, monthKey)) < MaxBucket
     /\ \E form \in EditForms : TransactionSubmit(None, form)
  \/ \E t \in Rows : EditTransaction(t)
  \/ /\ editingTransaction # None
     /\ \E form \in EditForms : TransactionSubmit(editingTransaction, form)
  \/ Import(FileRow)
  \/ TimerFire

SpecEdit == InitSelected /\ [][NextEdit]_vars

(***************************************************************************)
(* Properties of editing (SpecEdit).                                       *)
(***************************************************************************)
\* the record is the transaction t with the fields of the form
EditedTo(new, t, form) ==
  /\ new.id = t.id
  /\ new.type = form.type
  /\ new.date = form.date
  /\ new.item = form.item
  /\ new.amount = parseFloat(form.amount)[1]
  /\ IF form.tag = "" THEN ~HasTag(new) ELSE new.tag = form.tag

\* the bucket `new` is the bucket `old` with the transactions of the id
\* replaced in place
ReplacedInPlace(old, new, id, form) ==
  /\ Len(new) = Len(old)
  /\ \A j \in 1..Len(old) :
       IF old[j].id = id THEN EditedTo(new[j], old[j], form) ELSE new[j] = old[j]

\* C14: an accepted update of the transaction with an id in the bucket of the
\* selected month replaces the type, date, item, amount and tag of the
\* transaction with that id, keeps its id and position and every other
\* transaction and bucket; when the bucket holds no transaction with the id,
\* or does not exist, the mapping is unchanged.
UpdateInPlace ==
  [][\A form \in EditForms :
       (editingTransaction # None /\ TransactionSubmit(editingTransaction, form))
         => LET id == editingTransaction[1].id
                old == Bucket(transactionsByMonth, monthKey)
            IN IF \E j \in 1..Len(old) : old[j].id = id
               THEN /\ Len(transactionsByMonth') = Len(transactionsByMonth)
                    /\ \A i \in 1..Len(transactionsByMonth) :
                         /\ transactionsByMonth'[i].key = transactionsByMonth[i].key
                         /\ IF transactionsByMonth[i].key = monthKey
                            THEN ReplacedInPlace(old, transactionsByMonth'[i].txns, id, form)
                            ELSE transactionsByMonth'[i] = transactionsByMonth[i]
               ELSE transactionsByMonth' = transactionsByMonth]_vars

\* the update as the program performs it: as above when the bucket exists,
\* with or without the id; without the bucket, the key is added with an empty
\* collection
UpdateAddsEmptyBucket ==
  [][\A form \in EditForms :
       (editingTransaction # None /\ TransactionSubmit(editingTransaction, form))
         => LET id == editingTransaction[1].id
                old == Bucket(transactionsByMonth, monthKey)
            IN IF HasKey(transactionsByMonth, monthKey)
               THEN /\ Len(transactionsByMonth') = Len(transactionsByMonth)
                    /\ \A i \in 1..Len(transactionsByMonth) :
                         /\ transactionsByMonth'[i].key = transactionsByMonth[i].key
                         /\ IF transactionsByMonth[i].key = monthKey
                            THEN ReplacedInPlace(old, transactionsByMonth'[i].txns, id, form)
                            ELSE transactionsByMonth'[i] = transactionsByMonth[i]
               ELSE transactionsByMonth' =
                      Append(transactionsByMonth, [key |-> monthKey, txns |-> <<>>])]_vars

\* an update has been applied to a bucket holding another transaction too
UpdateInPlaceWitness ==
  /\ editingTransaction = None
  /\ \E i \in 1..Len(transactionsByMonth) :
       /\ Len(transactionsByMonth[i].txns) = 2
       /\ transactionsByMonth[i].txns[1].item = "Bonus"
       /\ transactionsByMonth[i].txns[1].id = 1
       /\ transactionsByMonth[i].txns[2].item = "Coffee"
       /\ transactionsByMonth[i].txns[2].id = 2
       /\ transactionsByMonth[i].txns[2].tag = "food"

\* an update through a stale row has left an empty bucket
EmptyBucketWitness ==
  \E i \in 1..Len(transactionsByMonth) : transactionsByMonth[i].txns = <<>>

(***************************************************************************)
(* Properties of the transaction ids (SpecTxn).                            *)
(***************************************************************************)
\* the ids of the transactions of a mapping, bucket by bucket
IdsOf(tbm) ==
  UNION {{tbm[i].txns[j].id : j \in 1..Len(tbm[i].txns)} : i \in 1..Len(tbm)}

\* the number of transactions of a mapping
CountOf(tbm) ==
  Cardinality(UNION {{<<i, j>> : j \in 1..Len(tbm[i].txns)} : i \in 1..Len(tbm)})

\* C15: an accepted create appends exactly one transaction to the end of the
\* bucket of the selected month, adding the bucket when absent and leaving
\* the other buckets alone, with an id greater than the id of every
\* transaction the user has; so the ids of the user's transactions are
\* pairwise distinct in every state.
CreateAppendsFreshId ==
  /\ [](CountOf(transactionsByMonth) = Cardinality(IdsOf(transactionsByMonth)))
  /\ [][\A form \in TransactionForms :
          (TransactionSubmit(None, form) /\ transactionsByMonth' # transactionsByMonth)
            => LET old == Bucket(transactionsByMonth, monthKey)
                   new == Bucket(transactionsByMonth', monthKey)
               IN /\ Len(new) = Len(old) + 1
                  /\ SubSeq(new, 1, Len(old)) = old
                  /\ \A i \in 1..Len(transactionsByMonth) :
                       transactionsByMonth[i].key # monthKey =>
                         transactionsByMonth'[i] = transactionsByMonth[i]
                  /\ \A id \in IdsOf(transactionsByMonth) : new[Len(new)].id > id]_vars

\* the create as the program performs it: the append as above, with the
\* reading of Date.now() as id, which is no smaller than the readings before
CreateAppendsClockId ==
  [][\A form \in TransactionForms :
       (TransactionSubmit(None, form) /\ transactionsByMonth' # transactionsByMonth)
         => LET old == Bucket(transactionsByMonth, monthKey)
                new == Bucket(transactionsByMonth', monthKey)
            IN /\ Len(new) = Len(old) + 1
               /\ SubSeq(new, 1, Len(old)) = old
               /\ \A i \in 1..Len(transactionsByMonth) :
                    transactionsByMonth[i].key # monthKey =>
                      transactionsByMonth'[i] = transactionsByMonth[i]
               /\ new[Len(new)].id = clock'
               /\ clock' >= clock]_vars

(***************************************************************************)
(* Properties of tag deletion and of the tag list (SpecTag).               *)
(***************************************************************************)
\* C16: deleting a tag removes that tag and no other from the tag list and
\* leaves every transaction and every template as it is, also those whose
\* tag is the deleted one.
TagDeleteKeepsReferences ==
  [][\A old \in TagNames :
       TagDelete(old)
         => /\ Len(tags') = Len(tags) - 1
            /\ \A i \in 1..Len(tags) :
                 (tags[i].name # old) <=> (\E j \in 1..Len(tags') : tags'[j] = tags[i])
            /\ transactionsByMonth' = transactionsByMonth
            /\ templates' = templates]_vars

\* a transaction and a template carry the tag food, which is no longer in
\* the tag list, while another tag is
TagDeleteKeepsReferencesWitness ==
  /\ "food" \notin TagNames
  /\ "meal" \in TagNames
  /\ \E i \in 1..Len(transactionsByMonth) :
       \E j \in 1..Len(transactionsByMonth[i].txns) :
         transactionsByMonth[i].txns[j].tag = "food"
  /\ \E i \in 1..Len(templates) : templates[i].tag = "food"

(***************************************************************************)
(* SpecTagList: the tag list under valid and invalid submissions.          *)
(***************************************************************************)
ListTagInputs == {"", "food", "meal", "meals", LabelExpense, LabelIncome}
ListColorInputs == {"", "#e74c3c", "#3498db"}

NextTagList ==
  \/ FlushEffects
  \/ DismissAlert
  \/ /\ Len(tags) < MaxList
     /\ \E name \in ListTagInputs, color \in ListColorInputs : TagSubmit("", name, color)
  \/ \E old \in TagNames, name \in ListTagInputs, color \in ListColorInputs :
       TagSubmit(old, name, color)
  \/ \E old \in TagNames : TagDelete(old)

SpecTagList == InitSelected /\ [][NextTagList]_vars

(***************************************************************************)
(* Properties of the tag list (SpecTagList).                               *)
(***************************************************************************)
\* C17: the names of the tags are pairwise distinct, 1 to 4 characters long
\* and not a built-in type label, and every tag has a color; an update that
\* keeps the tag's own name and has a color is accepted and replaces the tag
\* in place.
TagListValid ==
  /\ [](/\ \A i, j \in 1..Len(tags) : tags[i].name = tags[j].name => i = j
        /\ \A i \in 1..Len(tags) :
             /\ Len(tags[i].name) \in 1..4
             /\ tags[i].name \notin {LabelExpense, LabelIncome}
             /\ tags[i].color # "")
  /\ [][\A old \in TagNames, color \in ListColorInputs \ {""} :
          TagSubmit(old, old, color)
            => /\ alertMessage' = ""
               /\ Len(tags') = Len(tags)
               /\ \A i \in 1..Len(tags) :
                    tags'[i] = IF tags[i].name = old
                               THEN [name |-> old, color |-> color]
                               ELSE tags[i]]_vars


\* two tags are in the list and the color of one has been changed under its
\* own name
TagListValidWitness ==
  /\ Len(tags) = 2
  /\ tags[1].name = "meal"
  /\ tags[1].color = "#3498db"
  /\ tags[2].color = "#e74c3c"
  /\ alertMessage = MsgTagUsed

(***************************************************************************)
(* SpecTemplates: the template list under valid and invalid submissions.   *)
(***************************************************************************)
RaiseForm == [BonusForm EXCEPT !.amount = <<"9">>]
RentForm == [CoffeeForm EXCEPT !.item = "Rent", !.amount = <<"7", "0", "0">>]
TemplateForms ==
  {CoffeeForm, BonusForm, RaiseForm, RentForm, NoItemForm, ZeroForm}

NextTemplates ==
  \/ FlushEffects
  \/ DismissAlert
  \/ /\ Len(templates) < MaxList
     /\ \E form \in TemplateForms : TemplateSubmit("", form)
  \/ \E editingItem \in TemplateItems, form \in TemplateForms : TemplateSubmit(editingItem, form)
  \/ \E editingItem \in TemplateItems : TemplateDelete(editingItem)

SpecTemplates == InitSelected /\ [][NextTemplates]_vars

(***************************************************************************)
(* Properties of the template list (SpecTemplates).                        *)
(***************************************************************************)
\* the forms whose item and amount are valid
GoodForms == {form \in TemplateForms : ~BadForm(form)}

\* C18: the items of the templates are pairwise distinct; a create or update
\* whose item is that of another template is rejected; an update that keeps
\* the template's own item is accepted and replaces that template in place.
TemplateItemsDistinct ==
  /\ [](\A i, j \in 1..Len(templates) :
          templates[i].item = templates[j].item => i = j)
  /\ [][\A editingItem \in TemplateItems \cup {""}, form \in TemplateForms :
          (TemplateSubmit(editingItem, form) /\ form.item \in (TemplateItems \ {editingItem}))
            => alertMessage' # "" /\ templates' = templates]_vars
  /\ [][\A editingItem \in TemplateItems, form \in GoodForms :
          (TemplateSubmit(editingItem, form) /\ form.item = editingItem)
            => /\ alertMessage' = ""
               /\ Len(templates') = Len(templates)
               /\ \A i \in 1..Len(templates) :
                    IF templates[i].item = editingItem
                    THEN /\ templates'[i].item = editingItem
                         /\ templates'[i].type = form.type
                         /\ templates'[i].amount = parseFloat(form.amount)[1]
                    ELSE templates'[i] = templates[i]]_vars

\* the Bonus template, first of two, has been updated under its own item and
\* a submit with the other template's item has been refused
TemplateItemsDistinctWitness ==
  /\ Len(templates) = 2
  /\ templates[1].item = "Bonus"
  /\ templates[1].amount = Num(9)
  /\ alertMessage = MsgTemplateUsed

(***************************************************************************)
(* SpecUsers: the user list under creation, rename, delete and import,     *)
(* with valid and invalid names.                                           *)
(***************************************************************************)
UserNameInputs == {"", "A", "B", "ABCDEFGHI"}
\* a dataset whose user has a name of nine characters
FileLong ==
  Base64Encode([user |-> Some([name |-> "ABCDEFGHI", balance |-> Num(0)]),
                transactions |-> Some(<<>>),
                templates |-> None, tags |-> None, exportedAt |-> 0])
UserFiles == {FileA, FileLong}

NextUsers ==
  \/ FlushEffects
  \/ DismissAlert
  \/ \E n \in UserNameInputs, b \in BalanceInputs : UserSubmit(n, b)
  \/ \E n \in UserNameInputs : RenameSubmit(n)
  \/ \E n \in AllNames : SelectUser(n)
  \/ DeleteUser
  \/ \E f \in UserFiles : Import(f)
  \/ ImportConfirm
  \/ ImportCancel
  \/ TimerFire

SpecUsers == Init /\ [][NextUsers]_vars

(***************************************************************************)
(* Properties of the user list (SpecUsers).                                *)
(***************************************************************************)
UsersDistinct == \A i, j \in 1..Len(users) : users[i].name = users[j].name => i = j

\* a creation or a rename to a bad name sets the alert and keeps the list
BadNameRejected ==
  /\ \A n \in UserNameInputs, b \in BalanceInputs :
       (UserSubmit(n, b) /\ BadName(n)) => alertMessage' # "" /\ users' = users
  /\ \A n \in UserNameInputs :
       (RenameSubmit(n) /\ n # selectedUser /\ BadName(n))
         => alertMessage' # "" /\ users' = users

\* C19: the names in the user list are pairwise distinct and each is 1 to 8
\* characters long; a creation or a rename to an empty name, to a name longer
\* than 8 characters or to a name another user has is rejected.
UserNamesValid ==
  /\ [](/\ UsersDistinct
        /\ \A i \in 1..Len(users) : Len(users[i].name) \in 1..8)
  /\ [][BadNameRejected]_vars

\* the user list as the program keeps it: names pairwise distinct and never
\* empty, bad names rejected by creation and rename
UserNamesDistinct ==
  /\ [](/\ UsersDistinct
        /\ \A i \in 1..Len(users) : users[i].name # "")
  /\ [][BadNameRejected]_vars

(***************************************************************************)
(* SpecAmount: validateAmount applied to the text of the amount field.     *)
(***************************************************************************)
AmountChars == {"0", "1", "7", ".", "-"}
\* the texts of up to MaxAmountLen characters, and the text 100.7
AmountTexts ==
  UNION {[1..n -> AmountChars] : n \in 0..MaxAmountLen}
    \cup {<<"1", "0", "0", ".", "7">>}

InitAmount ==
  /\ users = <<[name |-> "A", balance |-> Num(1000)]>>
  /\ mainUser = "A"
  /\ selectedUser = "A"
  /\ transactionsByMonth = <<>>
  /\ templates = <<>>
  /\ tags = <<>>
  /\ alertMessage = ""
  /\ localStorage =
       [users |-> Some(users), mainUser |-> Some("A"),
        transactions |-> [n \in AllNames |-> IF n = "A" THEN Some(<<>>) ELSE None],
        templates |-> [n \in AllNames |-> IF n = "A" THEN Some(<<>>) ELSE None],
        tags |-> [n \in AllNames |-> IF n = "A" THEN Some(<<>>) ELSE None]]
  /\ mounted = TRUE
  /\ dirty = {}
  /\ importData = None
  /\ isImportConfirmOpen = FALSE
  /\ timers = <<>>
  /\ file = None
  /\ clock = 1
  /\ selectedYear = CurrentYear
  /\ selectedMonth = CurrentMonth
  /\ amount \in AmountTexts
  /\ item = ""
  /\ filterTag = Null
  /\ editingTransaction = None
  /\ last = NoOp

\* validateAmount(amount, setAlertMessage); the value returned is kept in last
ValidateAmount ==
  /\ Idle
  /\ last.op # "validate"
  /\ alertMessage' = (IF validateAmount(amount) = None THEN MsgAmount ELSE alertMessage)
  /\ last' = DidWith("validate", validateAmount(amount))
  /\ UNCHANGED <<memory, localStorage, mounted, dirty, modalState, timers, file,
                 clock, dateState, amount, item, filterTag, editingTransaction>>

NextAmount ==
  \/ ValidateAmount
  \/ DismissAlert

SpecAmount == InitAmount /\ [][NextAmount]_vars

(***************************************************************************)
(* Properties of validateAmount (SpecAmount).                              *)
(***************************************************************************)
\* the number the text reads as once its decimal points are taken out
Stripped(text) == parseFloat(removeDecimal(text))

\* C20: validateAmount reports the invalid-amount message and returns null
\* for a text that, its decimal points stripped, does not parse to a number
\* or parses to zero or to a negative number; otherwise it returns the number
\* so parsed; for the text 100.7 it returns 1007.
AmountStripsDecimals ==
  [][ValidateAmount
       => /\ IF Stripped(amount) = None \/ Stripped(amount)[1].n <= 0
             THEN last'.data = Some(None) /\ alertMessage' = MsgAmount
             ELSE last'.data = Some(Stripped(amount)) /\ alertMessage' = ""
          /\ amount = <<"1", "0", "0", ".", "7">>
               => last'.data = Some(Some(Num(1007)))]_vars

\* validateAmount as the program performs it, for a text without a decimal
\* point, which is all an AmountInput's onChange hands on: the outcome above
AmountWithoutPoint ==
  [][(ValidateAmount /\ \A i \in 1..Len(amount) : amount[i] # ".")
       => IF Stripped(amount) = None \/ Stripped(amount)[1].n <= 0
          THEN last'.data = Some(None) /\ alertMessage' = MsgAmount
          ELSE last'.data = Some(Stripped(amount)) /\ alertMessage' = ""]_vars
(***************************************************************************)
(* SpecItem: validateItem applied to the text of the item field.           *)
(***************************************************************************)
ItemBase == "12345678901234"
\* the pieces of ItemBase of up to MaxItemTextLen characters, the empty text
\* among them
ItemTexts ==
  UNION ({{""}} \cup
         {{SubSeq(ItemBase, i, i + n - 1) : i \in 1..(Len(ItemBase) - n + 1)} :
          n \in 1..MaxItemTextLen})

InitItem ==
  /\ users = <<[name |-> "A", balance |-> Num(1000)]>>
  /\ mainUser = "A"
  /\ selectedUser = "A"
  /\ transactionsByMonth = <<>>
  /\ templates = <<>>
  /\ tags = <<>>
  /\ alertMessage = ""
  /\ localStorage =
       [users |-> Some(users), mainUser |-> Some("A"),
        transactions |-> [n \in AllNames |-> IF n = "A" THEN Some(<<>>) ELSE None],
        templates |-> [n \in AllNames |-> IF n = "A" THEN Some(<<>>) ELSE None],
        tags |-> [n \in AllNames |-> IF n = "A" THEN Some(<<>>) ELSE None]]
  /\ mounted = TRUE
  /\ dirty = {}
  /\ importData = None
  /\ isImportConfirmOpen = FALSE
  /\ timers = <<>>
  /\ file = None
  /\ clock = 1
  /\ selectedYear = CurrentYear
  /\ selectedMonth = CurrentMonth
  /\ amount = <<>>
  /\ item \in ItemTexts
  /\ filterTag = Null
  /\ editingTransaction = None
  /\ last = NoOp

\* validateItem(item), its message shown as handleSubmit shows it; the
\* message ("" on success) is kept in last
ValidateItem ==
  /\ Idle
  /\ last.op # "validateItem"
  /\ alertMessage' = validateItem(item)
  /\ last' = DidWith("validateItem", validateItem(item))
  /\ UNCHANGED <<memory, localStorage, mounted, dirty, modalState, timers, file,
                 clock, dateState, amount, item, filterTag, editingTransaction>>

NextItem ==
  \/ ValidateItem
  \/ DismissAlert

SpecItem == InitItem /\ [][NextItem]_vars

(***************************************************************************)
(* Properties of validateItem (SpecItem).                                  *)
(***************************************************************************)
\* C21: validateItem succeeds exactly for the items of 1 to 12 characters;
\* the empty item fails, an item of 12 characters succeeds and an item of 13
\* characters fails.
ItemLengthChecked ==
  [][ValidateItem
       => /\ (last'.data = Some("")) <=> (Len(item) >= 1 /\ Len(item) <= 12)
          /\ item = "" => last'.data # Some("")
          /\ item = "123456789012" => last'.data = Some("")
          /\ item = "1234567890123" => last'.data # Some("")]_vars

\* the item of 12 characters has been accepted
ItemLengthCheckedWitness ==
  /\ last.op = "validateItem"
  /\ item = "123456789012"
  /\ last.data = Some("")
  /\ alertMessage = ""

(***************************************************************************)
(* SpecDate: transactions are added and edited in the current month and    *)
(* the month before it; the date field holds the real-world day of month   *)
(* until another day is picked in the DateDropdown.                        *)
(***************************************************************************)
\* the days of month the specification tries
Days == {1, 28, 29, 30, 31}
\* new Date().getDate() when the form was reset
TodayDates == {d \in Days : d <= getDaysInMonth(CurrentYear, CurrentMonth)}
\* the options of the DateDropdown
DateOptions == {d \in Days : d <= getDaysInMonth(selectedYear, selectedMonth)}

NextDate ==
  \/ FlushEffects
  \/ /\ Len(Bucket(transactionsByMonth, monthKey)) < MaxSmallBucket
     /\ \E d \in TodayDates \cup DateOptions :
          TransactionSubmit(None, [CoffeeForm EXCEPT !.date = d])
  \/ \E t \in Rows : \E d \in {t.date} \cup DateOptions :
       TransactionSubmit(Some(t), [BonusForm EXCEPT !.date = d])
  \/ \E t \in Rows : TransactionDelete(t)
  \/ selectedMonth = CurrentMonth /\ PrevMonth
  \/ NextMonth

SpecDate == InitSelected /\ [][NextDate]_vars

(***************************************************************************)
(* Properties of the dates (SpecDate).                                     *)
(***************************************************************************)
\* the transactions of the bucket of a year and month have a day of that month
DatesWithin(tbm, year, month) ==
  \A i \in 1..Len(tbm) :
    tbm[i].key = getMonthKey(year, month) =>
      \A j \in 1..Len(tbm[i].txns) :
        /\ tbm[i].txns[j].date >= 1
        /\ tbm[i].txns[j].date <= getDaysInMonth(year, month)

\* C22: every transaction created or edited through the form has a date
\* between 1 and the number of days of the month of its bucket, whatever the
\* real-world day of month and whichever month is selected.
DatesInMonth ==
  \A year \in (CurrentYear - 1)..CurrentYear, month \in 1..12 :
    DatesWithin(transactionsByMonth, year, month)

\* the dates as the program keeps them: a day of the selected month when
\* picked in the DateDropdown, else a day of the real-world month
DatesInAMonth ==
  \A i \in 1..Len(transactionsByMonth) :
    \A j \in 1..Len(transactionsByMonth[i].txns) :
      transactionsByMonth[i].txns[j].date \in 1..31

(***************************************************************************)
(* Properties of user deletion (SpecUsers).                                *)
(***************************************************************************)
\* the positions of a user list that hold another name than the given one
OthersOf(us, name) == {i \in 1..Len(us) : us[i].name # name}

\* C23: deleting the selected user when it is not the main user removes
\* exactly that user from the user list, the other users keeping their order
\* and their balances, leaves mainUser as it is and selects the main user.
DeleteRemovesSelected ==
  [][(DeleteUser /\ selectedUser # mainUser)
       => /\ Len(users') = Len(users) - 1
          /\ \A i \in 1..Len(users') : users'[i].name # selectedUser
          /\ \A i \in OthersOf(users, selectedUser) :
               users'[Cardinality({j \in OthersOf(users, selectedUser) : j <= i})] = users[i]
          /\ mainUser' = mainUser
          /\ selectedUser' = mainUser]_vars

\* a deletion has just removed the second of two users, and the remaining
\* user is the main user and selected
DeleteRemovesSelectedWitness ==
  /\ last.op = "delete"
  /\ last.ls.users # None
  /\ Len(JSONparse(last.ls.users[1])) = 2
  /\ JSONparse(last.ls.users[1])[2].name = last.sel
  /\ users = <<JSONparse(last.ls.users[1])[1]>>
  /\ selectedUser = mainUser
  /\ mainUser = users[1].name

(***************************************************************************)
(* SpecFilter: the tag filter over created and imported transactions.      *)
(***************************************************************************)
\* a transaction of March 2024 whose tag is the name of a built-in type
TypeTagged ==
  [id |-> 9, type |-> "income", date |-> 5, item |-> "Refund", amount |-> Num(7),
   tag |-> "expense"]
\* a dataset of A holding that transaction
FileTypeTagged ==
  Base64Encode([user |-> Some([name |-> "A", balance |-> Num(1000)]),
                transactions |-> Some(<<[key |-> "2024-03", txns |-> <<TypeTagged>>]>>),
                templates |-> None, tags |-> None, exportedAt |-> 0])
FilterForms == {CoffeeForm, BonusForm, FoodForm}

NextFilter ==
  \/ FlushEffects
  \/ DismissAlert
  \/ /\ tags = <<>>
     /\ \E color \in ColorInputs : TagSubmit("", "food", color)
  \/ /\ Len(transactions) < MaxBucket
     /\ \E form \in FilterForms : form.tag \in TagOptions /\ TransactionSubmit(None, form)
  \/ Import(FileTypeTagged)
  \/ ImportConfirm
  \/ \E t \in ShownRows : TagClick(t)
  \/ ClearFilter

SpecFilter == InitSelected /\ [][NextFilter]_vars

(***************************************************************************)
(* Properties of the tag filter (SpecFilter).                              *)
(***************************************************************************)
\* the match of the specification: the filter is null, or it is a built-in
\* type name and the transaction has no tag and is of that type, or it is the
\* transaction's tag
Matches(t, f) ==
  \/ f = Null
  \/ (f = "expense" \/ f = "income") /\ ~HasTag(t) /\ t.type = f
  \/ t.tag = f

\* C24: the rows shown for the selected month are exactly the transactions of
\* that month that match the filter.
RowsMatchFilter ==
  ShownRows = {transactions[i] : i \in {j \in 1..Len(transactions) : Matches(transactions[j], filterTag)}}

\* the rows as the program shows them: for a built-in type name the untagged
\* transactions of that type and no others
RowsMatchFilterByKind ==
  ShownRows =
    {transactions[i] : i \in {j \in 1..Len(transactions) :
       \/ filterTag = Null
       \/ (filterTag = "expense" \/ filterTag = "income")
            /\ ~HasTag(transactions[j]) /\ transactions[j].type = filterTag
       \/ filterTag \notin {Null, "expense", "income"} /\ transactions[j].tag = filterTag}}

\* a click toggles: the filter becomes the clicked value, or null when the
\* clicked value was the filter
ClickToggles ==
  \A t \in ShownRows :
    TagClick(t) => filterTag' = (IF filterTag = clickedTag(t) THEN Null ELSE clickedTag(t))

\* the second of two clicks in a row on the same value
SecondClickOn(t) == TagClick(t) /\ ClickedLast(clickedTag(t))

\* C25 as stated: a click on a tag value sets the filter to that value unless
\* it is the active filter, in which case the filter is cleared to null;
\* clicking the same value twice in a row always leaves the filter null.
ClickTwiceClears ==
  [][/\ ClickToggles
     /\ \A t \in ShownRows : SecondClickOn(t) => filterTag' = Null]_vars

\* C25: a click on a tag value sets the filter to that value unless it is the
\* active filter, in which case the filter is cleared to null; clicking the
\* same value twice in a row leaves the filter null when the value was not the
\* filter before the first click, and leaves the filter at that value when it
\* was.
ClickTwiceRestores ==
  [][/\ ClickToggles
     /\ \A t \in ShownRows :
          SecondClickOn(t)
            => filterTag' = (IF last.data[1].before = clickedTag(t)
                             THEN clickedTag(t) ELSE Null)]_vars

\* two clicks in a row on the active filter value have left it active
ClickTwiceRestoresWitness ==
  /\ last.op = "tagClick"
  /\ last.data[1].clicked = "food"
  /\ last.data[1].again
  /\ last.data[1].before = Null
  /\ filterTag = "food"
  /\ \E t \in ShownRows : clickedTag(t) = "food"

(***************************************************************************)
(* Properties of the per-user data across rename and creation (Spec).      *)
(***************************************************************************)
\* the balance the user list gives a name, if any
BalancesOf(us, name) == {us[i].balance : i \in {j \in 1..Len(us) : us[j].name = name}}

\* C26: renaming the selected user keeps its data: once the rename has
\* settled, the in-memory and the stored transactions, templates and tags
\* under the new name equal those the user had under the old name before the
\* rename, and its balance is unchanged.
RenameKeepsData ==
  (last.op = "rename" /\ Settled)
    => /\ StringifyTransactions(transactionsByMonth)
            = StoredOrEmpty(last.ls.transactions[last.sel])
       /\ StringifyList(templates) = StoredOrEmpty(last.ls.templates[last.sel])
       /\ tags = StoredOrEmpty(last.ls.tags[last.sel])
       /\ localStorage.transactions[selectedUser] = last.ls.transactions[last.sel]
       /\ localStorage.templates[selectedUser] = last.ls.templates[last.sel]
       /\ localStorage.tags[selectedUser] = last.ls.tags[last.sel]
       /\ BalancesOf(users, selectedUser) = BalancesOf(JSONparse(last.ls.users[1]), last.sel)

\* the part of it the rename does keep: the user's record keeps its balance
RenameKeepsBalance ==
  (last.op = "rename" /\ Settled)
    => BalancesOf(users, selectedUser) = BalancesOf(JSONparse(last.ls.users[1]), last.sel)

\* C27: a user created through the user-creation flow starts with empty
\* transactions, templates and tags once the store has settled, also under a
\* name that an earlier deleted or renamed user carried.
CreatedUserStartsEmpty ==
  (last.op = "create" /\ Settled)
    => /\ transactionsByMonth = <<>>
       /\ templates = <<>>
       /\ tags = <<>>

\* what the created user does start with: the collections stored under its
\* name when the creation was submitted
CreatedUserLoadsStored ==
  (last.op = "create" /\ Settled)
    => /\ StringifyTransactions(transactionsByMonth)
            = StoredOrEmpty(last.ls.transactions[selectedUser])
       /\ StringifyList(templates) = StoredOrEmpty(last.ls.templates[selectedUser])
       /\ tags = StoredOrEmpty(last.ls.tags[selectedUser])

(***************************************************************************)
(* Properties of the delayed import callback (Spec).                       *)
(***************************************************************************)
\* the per-user entries stored under a name
EntriesOf(ls, n) == <<ls.transactions[n], ls.templates[n], ls.tags[n]>>

\* C28: the delayed callback of an import that created a user applies the
\* imported collections, in memory and in storage, to the imported user only:
\* the imported user is the selected one when the callback runs, and once the
\* store has settled no other user's stored collections have changed.
TimerAppliesToImportedUser ==
  /\ [][TimerFire => selectedUser = Head(timers).user[1].name]_vars
  /\ []((last.op = "timer" /\ Settled)
          => \A n \in AllNames \ {last.data[1].user[1].name} :
               EntriesOf(localStorage, n) = EntriesOf(last.ls, n))

(***************************************************************************)
(* Properties of the selection (Spec).                                     *)
(***************************************************************************)
\* C29: in every settled state reached by creation, selection, import,
\* rename, set-main and delete operations, selectedUser is empty or the name
\* of a user in the user list.
SelectedUserExists ==
  Settled => (selectedUser = "" \/ selectedUser \in UserNames(users))

\* a deletion has settled with the main user selected, the main user being
\* in the list under another name than A
SelectedUserExistsWitness ==
  /\ Settled
  /\ last.op = "delete"
  /\ selectedUser = mainUser
  /\ selectedUser \in UserNames(users)
  /\ last.ls.mainUser = Some(mainUser)
  /\ mainUser # "A"

(***************************************************************************)
(* SpecNav: the year and the month selected through DateDropdowns.         *)
(***************************************************************************)
\* texts typed into the year and the month input
NavTexts ==
  {<<>>, <<"-", "1">>, <<"0">>, <<"5">>, <<"1", "3">>, <<"1", "e", "3">>,
   <<"1", "9", "9", "9">>, <<"2", "0", "0", "0">>, <<"2", "0", "2", "3">>,
   <<"2", "0", "2", "4">>, <<"2", "0", "9", "9">>}

NextNav ==
  \/ PrevMonth
  \/ NextMonth
  \/ \E opt \in yearOptions : YearSelect(opt)
  \/ \E text \in NavTexts : YearInput(text)
  \/ \E opt \in monthOptions : MonthSelect(opt)
  \/ \E text \in NavTexts : MonthInput(text)

SpecNav == InitSelected /\ [][NextNav]_vars

(***************************************************************************)
(* Properties of the selected month (SpecNav).                             *)
(***************************************************************************)
\* C30: after any sequence of previous-month, next-month, year-selection and
\* month-selection actions the selected month is no later than the real-world
\* current month and no earlier than January 2000, and is between 1 and 12.
SelectedMonthInRange ==
  /\ selectedMonth \in 1..12
  /\ selectedYear >= 2000
  /\ selectedYear < CurrentYear
       \/ (selectedYear = CurrentYear /\ selectedMonth <= CurrentMonth)

\* the current year has just been chosen while a month after the current one
\* was selected, and the current month is selected now
SelectedMonthInRangeWitness ==
  /\ last.op = "year"
  /\ last.data[1].month > CurrentMonth
  /\ selectedYear = CurrentYear
  /\ selectedMonth = CurrentMonth

====
